---- MODULE Spec2Model ----
(***************************************************************************)
(* FSM extraction and reconstruction engine of FSM_Graph_Viz.              *)
(*                                                                         *)
(* Text is modelled at character level: a string is a sequence of          *)
(* one-character strings, so that the substring searches and regular       *)
(* expressions of the extractor are computed the way the code computes     *)
(* them.  A syntax tree is a nested record (kind, token text, leading      *)
(* trivia, children), the abstract tree interface of cst_service.py.       *)
(***************************************************************************)
EXTENDS Integers, Sequences, FiniteSets, TLC

VARIABLES
  pc,            \* position of the run: "generate", "returned", "raised", "parse", "extract", "done";
                 \* "serve" while the backend serves requests
  edited_graph,  \* the caller's graph handed to generate_code_from_graph
  outcome,       \* what generate_code_from_graph did: [kind |-> "none" | "code" | "ValueError", text]
  request_code,  \* the source text handed to the parser
  tree,          \* the syntax tree handed to build_fsm_graphs_from_cst
  graphs,        \* the list returned by build_fsm_graphs_from_cst
  graphs_storage,         \* backend: the stored graphs, each with parse_id and graph_id
  current_parse_id,       \* backend: the number of the latest stored parse
  original_code_storage,  \* backend: the source text of each stored parse, by parse_id
  issued_ids              \* history: the graph_ids that parse responses have handed out

store == <<graphs_storage, current_parse_id, original_code_storage, issued_ids>>

vars == <<pc, edited_graph, outcome, request_code, tree, graphs, store>>

\* the backend's globals when the process starts
EmptyStore ==
  /\ graphs_storage = <<>>
  /\ current_parse_id = 0
  /\ original_code_storage = <<>>
  /\ issued_ids = {}

-----------------------------------------------------------------------------
(* String literals of the source as character sequences.                   *)
\* the characters of a string literal, one by one
Lit(s) == [i \in 1..Len(s) |-> SubSeq(s, i, i)]

-----------------------------------------------------------------------------
(* Python str primitives.                                                  *)

UpperChars == {"A","B","C","D","E","F","G","H","I","J","K","L","M",
               "N","O","P","Q","R","S","T","U","V","W","X","Y","Z"}
LowerChars == {"a","b","c","d","e","f","g","h","i","j","k","l","m",
               "n","o","p","q","r","s","t","u","v","w","x","y","z"}
DigitChars == {"0","1","2","3","4","5","6","7","8","9"}
SpaceChars == {" ", "\n", "\t"}

\* [A-Za-z_]
IsIdentStart(c) == c \in UpperChars \cup LowerChars \cup {"_"}
\* \w
WordChars == UpperChars \cup LowerChars \cup DigitChars \cup {"_"}
IsWordChar(c) == c \in WordChars

ToLowerChar ==
  ("A" :> "a") @@ ("B" :> "b") @@ ("C" :> "c") @@ ("D" :> "d") @@ ("E" :> "e") @@
  ("F" :> "f") @@ ("G" :> "g") @@ ("H" :> "h") @@ ("I" :> "i") @@ ("J" :> "j") @@
  ("K" :> "k") @@ ("L" :> "l") @@ ("M" :> "m") @@ ("N" :> "n") @@ ("O" :> "o") @@
  ("P" :> "p") @@ ("Q" :> "q") @@ ("R" :> "r") @@ ("S" :> "s") @@ ("T" :> "t") @@
  ("U" :> "u") @@ ("V" :> "v") @@ ("W" :> "w") @@ ("X" :> "x") @@ ("Y" :> "y") @@
  ("Z" :> "z")

\* str.lower()
Lower(t) == [i \in 1..Len(t) |-> IF t[i] \in UpperChars THEN ToLowerChar[t[i]] ELSE t[i]]

\* the concatenation of parts[lo..hi], by halves
RECURSIVE JoinRange(_, _, _)
JoinRange(parts, lo, hi) ==
  IF lo > hi THEN <<>>
  ELSE IF lo = hi THEN parts[lo]
  ELSE LET mid == (lo + hi) \div 2
       IN  JoinRange(parts, lo, mid) \o JoinRange(parts, mid + 1, hi)

\* "".join(parts)
Join(parts) == JoinRange(parts, 1, Len(parts))

\* sep.join(parts)
JoinWith(sep, parts) ==
  Join([i \in 1..Len(parts) |-> IF i = 1 THEN parts[i] ELSE sep \o parts[i]])

\* text.startswith(p, i-1)
MatchAt(t, i, p) == i + Len(p) - 1 <= Len(t) /\ SubSeq(t, i, i + Len(p) - 1) = p

\* p in text
Contains(t, p) == \E i \in 1..(Len(t) - Len(p) + 1) : SubSeq(t, i, i + Len(p) - 1) = p

\* text.find(p), 1-based; 0 stands for Python's -1
Find(t, p) ==
  IF Contains(t, p)
  THEN CHOOSE i \in 1..(Len(t) - Len(p) + 1) :
         /\ SubSeq(t, i, i + Len(p) - 1) = p
         /\ \A j \in 1..(i - 1) : SubSeq(t, j, j + Len(p) - 1) # p
  ELSE 0

StartsWith(t, p) == MatchAt(t, 1, p)
EndsWith(t, p) == Len(p) <= Len(t) /\ SubSeq(t, Len(t) - Len(p) + 1, Len(t)) = p

\* str.strip()
RECURSIVE LStrip(_)
LStrip(t) == IF t # <<>> /\ Head(t) \in SpaceChars THEN LStrip(Tail(t)) ELSE t
RECURSIVE RStrip(_)
RStrip(t) ==
  IF t # <<>> /\ t[Len(t)] \in SpaceChars THEN RStrip(SubSeq(t, 1, Len(t) - 1)) ELSE t
Strip(t) == RStrip(LStrip(t))

\* re.sub(r"\s+", "", text)
Compact(t) == SelectSeq(t, LAMBDA c : c \notin SpaceChars)

\* the elements of a finite set of integers in increasing order
Sorted(S) ==
  [k \in 1..Cardinality(S) |-> CHOOSE p \in S : Cardinality({q \in S : q < p}) = k - 1]

\* str.split(c) on a one-character separator
SplitOn(t, c) ==
  LET at == Sorted({i \in 1..Len(t) : t[i] = c})
      n == Len(at)
  IN  [k \in 1..(n + 1) |->
         SubSeq(t, IF k = 1 THEN 1 ELSE at[k - 1] + 1, IF k = n + 1 THEN Len(t) ELSE at[k] - 1)]

\* the first offset from i on whose character is in the set stop, the end of the
\* text if there is none: where a pattern [^...]* that starts at i stops
SkipUntil(t, i, stop) ==
  IF \E z \in i..Len(t) : t[z] \in stop
  THEN CHOOSE z \in i..Len(t) : t[z] \in stop /\ \A y \in i..(z - 1) : t[y] \notin stop
  ELSE IF i > Len(t) THEN i ELSE Len(t) + 1

\* the first offset from i on whose character is not in the set run, the end of
\* the text if there is none: where a pattern \s* or \w* that starts at i stops
SkipWhile(t, i, run) ==
  IF \E z \in i..Len(t) : t[z] \notin run
  THEN CHOOSE z \in i..Len(t) : t[z] \notin run /\ \A y \in i..(z - 1) : t[y] \in run
  ELSE IF i > Len(t) THEN i ELSE Len(t) + 1

IsSpace(c) == c \in SpaceChars

\* x in list
InSeq(x, s) == \E i \in 1..Len(s) : s[i] = x

\* list of the distinct elements of s, first occurrences kept in order
RECURSIVE Dedup(_)
Dedup(s) ==
  IF s = <<>> THEN <<>>
  ELSE LET r == Dedup(SubSeq(s, 1, Len(s) - 1))
       IN  IF InSeq(s[Len(s)], r) THEN r ELSE Append(r, s[Len(s)])

-----------------------------------------------------------------------------
(* Syntax-tree interface (cst_service.py).  A token is a leaf carrying its *)
(* value text and its leading trivia; a syntax node carries children.      *)

Tok(k, s) == [tok |-> TRUE, kind |-> k, text |-> s, trivia |-> <<" ">>, kids |-> <<>>]
Node(k, ch) == [tok |-> FALSE, kind |-> k, text |-> <<>>, trivia |-> <<>>, kids |-> ch]

kind(n) == n.kind
children(n) == n.kids

\* str(node): the source text of the node, trivia included
RECURSIVE SourceText(_)
SourceText(n) ==
  IF n.tok THEN n.trivia \o n.text
  ELSE Join([i \in 1..Len(n.kids) |-> SourceText(n.kids[i])])

\* text_of: valueText of a token, str() of a syntax node
text_of(n) == IF n.tok THEN n.text ELSE SourceText(n)

\* collect_identifiers_inline: the token texts of the leaves, joined, stripped
RECURSIVE LeafTexts(_)
LeafTexts(n) ==
  IF text_of(n) # <<>> /\ Len(children(n)) = 0 THEN text_of(n)
  ELSE Join([i \in 1..Len(n.kids) |-> LeafTexts(n.kids[i])])
collect_identifiers_inline(n) == Strip(LeafTexts(n))

\* find_all: every node of the given kind, in pre-order
RECURSIVE find_all(_, _)
find_all(n, k) ==
  (IF kind(n) = k THEN <<n>> ELSE <<>>)
    \o Join([i \in 1..Len(n.kids) |-> find_all(n.kids[i], k)])

\* find_first: the first node of the given kind in pre-order, <<>> for None
find_first(n, k) == LET a == find_all(n, k) IN IF a = <<>> THEN <<>> ELSE <<a[1]>>

\* first_identifier_text: text of the first Identifier, <<>> for None
first_identifier_text(n) ==
  LET f == find_first(n, Lit("Identifier")) IN IF f = <<>> THEN <<>> ELSE text_of(f[1])

-----------------------------------------------------------------------------
(* The external parser behind CSTService.build_cst_from_text, for the      *)
(* subset of the language the inputs use: packages and modules holding     *)
(* typedefs, data declarations, always blocks with begin/end, if/else and  *)
(* case statements.  Node and token kinds carry the parser's kind names.   *)

\* the end of the trivia (white space and // comments) that starts at i
RECURSIVE SkipTrivia(_, _)
SkipTrivia(t, i) ==
  LET j == SkipWhile(t, i, SpaceChars)
  IN  IF MatchAt(t, j, Lit("//"))
      THEN SkipTrivia(t, SkipUntil(t, j, {"\n"}))
      ELSE j

KeywordKinds ==
  (Lit("module") :> Lit("ModuleKeyword")) @@ (Lit("endmodule") :> Lit("EndModuleKeyword")) @@
  (Lit("package") :> Lit("PackageKeyword")) @@ (Lit("endpackage") :> Lit("EndPackageKeyword")) @@
  (Lit("import") :> Lit("ImportKeyword")) @@ (Lit("typedef") :> Lit("TypedefKeyword")) @@
  (Lit("enum") :> Lit("EnumKeyword")) @@ (Lit("logic") :> Lit("LogicKeyword")) @@
  (Lit("input") :> Lit("InputKeyword")) @@ (Lit("output") :> Lit("OutputKeyword")) @@
  (Lit("always_ff") :> Lit("AlwaysFFKeyword")) @@ (Lit("always_comb") :> Lit("AlwaysCombKeyword")) @@
  (Lit("always") :> Lit("AlwaysKeyword")) @@
  (Lit("posedge") :> Lit("PosEdgeKeyword")) @@ (Lit("negedge") :> Lit("NegEdgeKeyword")) @@
  (Lit("or") :> Lit("OrKeyword")) @@
  (Lit("begin") :> Lit("BeginKeyword")) @@ (Lit("end") :> Lit("EndKeyword")) @@
  (Lit("if") :> Lit("IfKeyword")) @@ (Lit("else") :> Lit("ElseKeyword")) @@
  (Lit("case") :> Lit("CaseKeyword")) @@ (Lit("casex") :> Lit("CaseXKeyword")) @@
  (Lit("casez") :> Lit("CaseZKeyword")) @@ (Lit("endcase") :> Lit("EndCaseKeyword")) @@
  (Lit("unique") :> Lit("UniqueKeyword")) @@ (Lit("priority") :> Lit("PriorityKeyword")) @@
  (Lit("default") :> Lit("DefaultKeyword")) @@ (Lit("assign") :> Lit("AssignKeyword"))

\* the token that starts at i (i is no trivia), with the trivia tr before it
TokenAt(t, i, tr) ==
  LET z == IF IsIdentStart(t[i]) THEN SkipWhile(t, i, WordChars)
           ELSE IF t[i] \in DigitChars
                THEN SkipWhile(t, i, WordChars \cup {"'"})
           ELSE i + 1
      s == SubSeq(t, i, z - 1)
      k == IF IsIdentStart(t[i])
             THEN (IF s \in DOMAIN KeywordKinds THEN KeywordKinds[s] ELSE Lit("Identifier"))
           ELSE IF t[i] \in DigitChars THEN Lit("IntegerLiteral")
           ELSE Lit("Punctuation")
  IN  [tok |-> TRUE, kind |-> k, text |-> s, trivia |-> tr, kids |-> <<>>]

\* the tokens of the text from offset i on
RECURSIVE LexFrom(_, _)
LexFrom(t, i) ==
  LET j == SkipTrivia(t, i)
      tk == TokenAt(t, j, SubSeq(t, i, j - 1))
  IN  IF j > Len(t) THEN <<>> ELSE <<tk>> \o LexFrom(t, j + Len(tk.text))

\* the offset of the last character of the last token of the line t[a..b], 0 if none
LastCodeChar(t, a, b) ==
  LET cm == {q \in a..(b - 1) : MatchAt(t, q, Lit("//"))}
      stop == IF cm = {} THEN b ELSE (CHOOSE q \in cm : \A r \in cm : q <= r) - 1
      code == {q \in a..stop : t[q] \notin SpaceChars}
  IN  IF code = {} THEN 0 ELSE CHOOSE q \in code : \A r \in code : r <= q

\* the tokens of a text: the text is cut after the last token of every line and
\* the pieces are tokenized one by one
Lex(t) ==
  LET nl == Sorted({i \in 1..Len(t) : t[i] = "\n"})
      n == Len(nl)
      ends == [k \in 1..(n + 1) |->
                 LastCodeChar(t, IF k = 1 THEN 1 ELSE nl[k - 1] + 1,
                                 IF k = n + 1 THEN Len(t) ELSE nl[k] - 1)]
      cuts == <<0>> \o SelectSeq(ends, LAMBDA e : e # 0)
  IN  Join([k \in 1..(Len(cuts) - 1) |-> LexFrom(SubSeq(t, cuts[k] + 1, cuts[k + 1]), 1)])

\* text of token i, <<>> past the end
TT(ts, i) == IF i <= Len(ts) THEN ts[i].text ELSE <<>>

\* the first index >= i whose token text is in S, Len(ts) + 1 if none
TokIn(ts, i, S) ==
  IF \E z \in i..Len(ts) : ts[z].text \in S
  THEN CHOOSE z \in i..Len(ts) : ts[z].text \in S /\ \A y \in i..(z - 1) : ts[y].text \notin S
  ELSE Len(ts) + 1

\* the index of the bracket that closes the one opened before i, at nesting depth
\* `depth` there (open/close are the two bracket texts); Len(ts) if it stays open
Closing(ts, i, depth, open, close) ==
  LET Bal(z) == Cardinality({y \in i..z : ts[y].text = close})
                  - Cardinality({y \in i..z : ts[y].text = open})
      hits == {z \in i..Len(ts) : ts[z].text = close /\ Bal(z) = depth}
  IN  IF hits = {} THEN Len(ts) ELSE CHOOSE z \in hits : \A y \in hits : z <= y

CaseWords == {Lit("case"), Lit("casex"), Lit("casez")}
CaseQualifiers == {Lit("unique"), Lit("priority")}
BlockKinds ==
  (Lit("always_ff") :> Lit("AlwaysFFBlock")) @@ (Lit("always_comb") :> Lit("AlwaysCombBlock")) @@
  (Lit("always") :> Lit("AlwaysBlock"))

\* a statement starting at i: [node, next]
RECURSIVE ParseStmt(_, _)
RECURSIVE ParseStmts(_, _, _)
RECURSIVE ParseItems(_, _)

ParseStmt(ts, i) ==
  LET w == TT(ts, i)
  IN  IF w = <<"@">>
      THEN LET c == IF TT(ts, i + 1) = <<"(">> THEN Closing(ts, i + 2, 1, <<"(">>, <<")">>)
                    ELSE i + 1
               ev == Node(Lit("EventControlWithExpression"), SubSeq(ts, i, c))
               body == ParseStmt(ts, c + 1)
           IN  [node |-> Node(Lit("TimingControlStatement"), <<ev, body.node>>),
                next |-> body.next]
      ELSE IF w = Lit("begin")
      THEN LET body == ParseStmts(ts, i + 1, {Lit("end")})
           IN  [node |-> Node(Lit("SequentialBlockStatement"),
                              <<ts[i]>> \o body.nodes \o SubSeq(ts, body.next, body.next)),
                next |-> body.next + 1]
      ELSE IF w = Lit("if")
      THEN LET c == Closing(ts, i + 2, 1, <<"(">>, <<")">>)
               th == ParseStmt(ts, c + 1)
               el == ParseStmt(ts, th.next + 1)
           IN  IF TT(ts, th.next) = Lit("else")
               THEN [node |-> Node(Lit("ConditionalStatement"),
                                   SubSeq(ts, i, c) \o <<th.node>>
                                     \o <<Node(Lit("ElseClause"), <<ts[th.next], el.node>>)>>),
                     next |-> el.next]
               ELSE [node |-> Node(Lit("ConditionalStatement"), SubSeq(ts, i, c) \o <<th.node>>),
                     next |-> th.next]
      ELSE IF w \in CaseWords \/ (w \in CaseQualifiers /\ TT(ts, i + 1) \in CaseWords)
      THEN LET k == IF w \in CaseWords THEN i ELSE i + 1
               c == Closing(ts, k + 2, 1, <<"(">>, <<")">>)
               items == ParseItems(ts, c + 1)
           IN  [node |-> Node(Lit("CaseStatement"),
                              SubSeq(ts, i, c) \o items.nodes
                                \o SubSeq(ts, items.next, items.next)),
                next |-> items.next + 1]
      ELSE LET semi == TokIn(ts, i, {<<";">>})
           IN  [node |-> Node(Lit("ExpressionStatement"), SubSeq(ts, i, semi)),
                next |-> semi + 1]

\* the statements up to a token whose text is in stop: [nodes, next], next at the stop token
ParseStmts(ts, i, stop) ==
  IF i > Len(ts) \/ TT(ts, i) \in stop THEN [nodes |-> <<>>, next |-> i]
  ELSE LET Cons(s, r) == [nodes |-> <<s.node>> \o r.nodes, next |-> r.next]
           After(s) == Cons(s, ParseStmts(ts, s.next, stop))
       IN  After(ParseStmt(ts, i))

\* the items of a case statement up to endcase
ParseItems(ts, i) ==
  IF i > Len(ts) \/ TT(ts, i) = Lit("endcase") THEN [nodes |-> <<>>, next |-> i]
  ELSE LET k == IF TT(ts, i) = Lit("default") THEN Lit("DefaultCaseItem")
                ELSE Lit("StandardCaseItem")
           Cons(colon, body, r) ==
             [nodes |-> <<Node(k, SubSeq(ts, i, colon) \o <<body.node>>)>> \o r.nodes,
              next |-> r.next]
           After(colon, body) == Cons(colon, body, ParseItems(ts, body.next))
           Item(colon) == After(colon, ParseStmt(ts, colon + 1))
       IN  Item(TokIn(ts, i, {<<":">>}))

\* the declarators of a list "a, b = 1, c" between i and j: Declarator nodes and commas
RECURSIVE ParseDeclarators(_, _, _)
ParseDeclarators(ts, i, j) ==
  IF i > j THEN <<>>
  ELSE LET comma == TokIn(SubSeq(ts, 1, j), i, {<<",">>})
       IN  <<Node(Lit("Declarator"), SubSeq(ts, i, comma - 1))>>
             \o SubSeq(ts, comma, IF comma <= j THEN comma ELSE comma - 1)
             \o ParseDeclarators(ts, comma + 1, j)

\* an enum type starting at the enum keyword at i: [node, next]
ParseEnumType(ts, i) ==
  LET ob == TokIn(ts, i, {<<"{">>})
      cb == Closing(ts, ob + 1, 1, <<"{">>, <<"}">>)
  IN  [node |-> Node(Lit("EnumType"),
                     SubSeq(ts, i, ob) \o ParseDeclarators(ts, ob + 1, cb - 1)
                       \o SubSeq(ts, cb, cb)),
       next |-> cb + 1]

EndWords == {Lit("endmodule"), Lit("endpackage")}

\* a member of a module or package starting at i: [node, next]
ParseMember(ts, i) ==
  LET w == TT(ts, i)
      semi == TokIn(ts, i, {<<";">>})
  IN  IF w = Lit("typedef") /\ TT(ts, i + 1) = Lit("enum")
      THEN LET Typedef(en, s) ==
                 [node |-> Node(Lit("TypedefDeclaration"),
                                <<ts[i], en.node>> \o SubSeq(ts, en.next, s)),
                  next |-> s + 1]
               Enum(en) == Typedef(en, TokIn(ts, en.next, {<<";">>}))
           IN  Enum(ParseEnumType(ts, i + 1))
      ELSE IF w = Lit("typedef")
      THEN [node |-> Node(Lit("TypedefDeclaration"), SubSeq(ts, i, semi)), next |-> semi + 1]
      ELSE IF w = Lit("enum")
      THEN LET Data(en, s) ==
                 [node |-> Node(Lit("DataDeclaration"),
                                <<en.node>> \o ParseDeclarators(ts, en.next, s - 1)
                                  \o SubSeq(ts, s, s)),
                  next |-> s + 1]
               Enum(en) == Data(en, TokIn(ts, en.next, {<<";">>}))
           IN  Enum(ParseEnumType(ts, i))
      ELSE IF w = Lit("import")
      THEN [node |-> Node(Lit("PackageImportDeclaration"), SubSeq(ts, i, semi)),
            next |-> semi + 1]
      ELSE IF w \in DOMAIN BlockKinds
      THEN LET Block(s) == [node |-> Node(BlockKinds[w], <<ts[i], s.node>>), next |-> s.next]
           IN  Block(ParseStmt(ts, i + 1))
      ELSE IF w = Lit("assign")
      THEN [node |-> Node(Lit("ContinuousAssign"), SubSeq(ts, i, semi)), next |-> semi + 1]
      ELSE IF ts[i].kind = Lit("Identifier")
      THEN [node |-> Node(Lit("DataDeclaration"),
                          <<Node(Lit("NamedType"), <<ts[i]>>)>>
                            \o ParseDeclarators(ts, i + 1, semi - 1) \o SubSeq(ts, semi, semi)),
            next |-> semi + 1]
      ELSE [node |-> Node(Lit("DataDeclaration"),
                          <<Node(Lit("LogicType"), <<ts[i]>>)>>
                            \o ParseDeclarators(ts, i + 1, semi - 1) \o SubSeq(ts, semi, semi)),
            next |-> semi + 1]

RECURSIVE ParseMembers(_, _)
ParseMembers(ts, i) ==
  IF i > Len(ts) \/ TT(ts, i) \in EndWords THEN [nodes |-> <<>>, next |-> i]
  ELSE LET Cons(m, r) == [nodes |-> <<m.node>> \o r.nodes, next |-> r.next]
           After(m) == Cons(m, ParseMembers(ts, m.next))
       IN  After(ParseMember(ts, i))

\* the modules and packages from token i on
RECURSIVE ParseUnits(_, _)
ParseUnits(ts, i) ==
  IF i > Len(ts) THEN <<>>
  ELSE LET hk == IF TT(ts, i) = Lit("package") THEN Lit("PackageHeader") ELSE Lit("ModuleHeader")
           dk == IF TT(ts, i) = Lit("package") THEN Lit("PackageDeclaration")
                 ELSE Lit("ModuleDeclaration")
           Unit(semi, body, last) ==
             <<Node(dk, <<Node(hk, SubSeq(ts, i, semi))>> \o body.nodes
                          \o SubSeq(ts, body.next, IF last <= Len(ts) THEN last ELSE Len(ts)))>>
               \o ParseUnits(ts, last + 1)
           Body(semi, body) ==
             Unit(semi, body,
                  IF TT(ts, body.next + 1) = <<":">> THEN body.next + 2 ELSE body.next)
           Header(semi) == Body(semi, ParseMembers(ts, semi + 1))
       IN  Header(TokIn(ts, i, {<<";">>}))

\* CSTService.build_cst_from_text(source).root
build_cst_from_text(source_text) ==
  Node(Lit("CompilationUnit"), ParseUnits(Lex(source_text), 1))

-----------------------------------------------------------------------------
(* Enum resolver (FSM_core/FindeENUM.py).  A node's identity, id(node) in  *)
(* the code, is its path from the root: the sequence of child indexes.     *)

\* find_all with the identity of every node found
RECURSIVE find_all_at(_, _, _)
find_all_at(n, k, path) ==
  (IF kind(n) = k THEN <<[id |-> path, node |-> n]>> ELSE <<>>)
    \o Join([i \in 1..Len(n.kids) |-> find_all_at(n.kids[i], k, Append(path, i))])

\* str(int) for a non-negative integer
RECURSIVE DecStr(_)
DecStr(n) ==
  LET d == <<"0","1","2","3","4","5","6","7","8","9">>
  IN  IF n < 10 THEN <<d[n + 1]>> ELSE DecStr(n \div 10) \o <<d[(n % 10) + 1]>>

\* the part of t before the first c (t.split(c, 1)[0])
BeforeFirst(t, c) == LET i == Find(t, <<c>>) IN IF i = 0 THEN t ELSE SubSeq(t, 1, i - 1)
\* the part of t after the first c (t.split(c, 1)[1])
AfterFirst(t, c) == LET i == Find(t, <<c>>) IN SubSeq(t, i + 1, Len(t))
\* the part of t before the last c (t.rsplit(c, 1)[0])
BeforeLast(t, c) ==
  LET I == {i \in 1..Len(t) : t[i] = c}
  IN  IF I = {} THEN t ELSE SubSeq(t, 1, (CHOOSE i \in I : \A j \in I : j <= i) - 1)

\* s with the elements failing Keep(_) removed
NonEmpty(s) == SelectSeq(s, LAMBDA x : x # <<>>)

find_enum_members(enum_node) ==
  LET NameOf(en) == IF first_identifier_text(en) # <<>> THEN first_identifier_text(en)
                    ELSE text_of(en)
      Names(parts) ==
        [i \in 1..Len(parts) |->
           IF parts[i] = <<>> THEN <<>> ELSE Strip(BeforeFirst(parts[i], "="))]
      Parts(sp) == Names([i \in 1..Len(sp) |-> Strip(sp[i])])
      Split(inner) ==
        Parts(SplitOn([i \in 1..Len(inner) |-> IF inner[i] = "\n" THEN " " ELSE inner[i]],
                      ","))
      FromText(brace_text) ==
        IF Contains(brace_text, <<"{">>) /\ Contains(brace_text, <<"}">>)
        THEN NonEmpty(Split(BeforeLast(AfterFirst(brace_text, "{"), "}")))
        ELSE <<>>
      FromNodes(enumerator_nodes) ==
        IF enumerator_nodes # <<>>
        THEN NonEmpty([i \in 1..Len(enumerator_nodes) |-> NameOf(enumerator_nodes[i])])
        ELSE FromText(IF text_of(enum_node) # <<>> THEN text_of(enum_node)
                      ELSE collect_identifiers_inline(enum_node))
  IN  FromNodes(find_all(enum_node, Lit("Enumerator")))

\* dfs_collect: every EnumType node with its identity and its parent (<<>> for None)
RECURSIVE dfs_collect(_, _, _)
dfs_collect(n, path, parent) ==
  (IF kind(n) = Lit("EnumType")
     THEN <<[id |-> path, enum_node |-> n, parent |-> parent]>> ELSE <<>>)
    \o Join([i \in 1..Len(n.kids) |-> dfs_collect(n.kids[i], Append(path, i), <<n>>)])

keyword_like ==
  { Lit("enum"), Lit("logic"), Lit("reg"), Lit("wire"), Lit("bit"), Lit("byte"),
    Lit("shortint"), Lit("int"), Lit("longint"), Lit("signed"), Lit("unsigned"),
    Lit("integer"), Lit("time"), Lit("real"), Lit("realtime") }

\* the names a declaring statement binds to its enum: the Identifier texts of the
\* parent outside the enum's own subtree that are no keyword and no member
AliasNames(item, members) ==
  LET parent == item.parent[1]
      own == item.id[Len(item.id)]
      ids == Join([i \in 1..Len(parent.kids) |->
                     IF i = own THEN <<>> ELSE find_all(parent.kids[i], Lit("Identifier"))])
      nms == [i \in 1..Len(ids) |-> text_of(ids[i])]
  IN  SelectSeq(nms, LAMBDA nm : nm # <<>> /\ nm \notin keyword_like /\ ~InSeq(nm, members))

\* dict[key] = value on an insertion-ordered dict kept as a list of [key, val]
DictPut(d, k, v) ==
  IF \E i \in 1..Len(d) : d[i].key = k
  THEN [i \in 1..Len(d) |-> IF d[i].key = k THEN [key |-> k, val |-> v] ELSE d[i]]
  ELSE Append(d, [key |-> k, val |-> v])

RECURSIVE DictPutAll(_, _, _)
DictPutAll(d, ks, v) ==
  IF ks = <<>> THEN d ELSE DictPutAll(DictPut(d, Head(ks), v), Tail(ks), v)

\* one iteration of the loop over enum_nodes_with_parents
EnumEntry(item) ==
  LET Entry(members, is_typedef, is_inline, names, typedef_name) ==
        [ enum_id |-> item.id,
          enum_name |-> typedef_name,
          enum_members |-> members,
          aliases |-> IF is_typedef
                      THEN (IF typedef_name # <<>> THEN <<typedef_name>> ELSE <<>>)
                      ELSE IF is_inline THEN names ELSE <<>> ]
      Named(members, is_typedef, is_inline, names) ==
        Entry(members, is_typedef, is_inline, names,
              IF is_typedef /\ names # <<>> THEN names[1] ELSE <<>>)
      Declared(members, parent_text) ==
        Named(members,
              /\ item.parent # <<>>
              /\ Contains(parent_text, Lit("typedef"))
              /\ Contains(parent_text, Lit("enum")),
              /\ item.parent # <<>>
              /\ Contains(parent_text, Lit("enum"))
              /\ ~Contains(parent_text, Lit("typedef")),
              IF item.parent = <<>> THEN <<>> ELSE AliasNames(item, members))
  IN  Declared(find_enum_members(item.enum_node),
               IF item.parent = <<>> THEN <<>>
               ELSE collect_identifiers_inline(item.parent[1]))

\* the naming loop with a counter that starts again at every enum
NameAnonymousFromOne(infos, anon_counter) ==
  [i \in 1..Len(infos) |->
     IF infos[i].enum_name # <<>> THEN infos[i]
     ELSE [infos[i] EXCEPT !.enum_name =
             Lit("anonymous_enum_")
               \o (IF infos[i].enum_members # <<>> THEN infos[i].enum_members[1]
                   ELSE DecStr(anon_counter + 1))
               \o <<"_">> \o DecStr(anon_counter + 1)]]

\* the loop that names the anonymous enums: anon_counter counts them in index order
RECURSIVE NameAnonymous(_, _)
NameAnonymous(infos, anon_counter) ==
  IF infos = <<>> THEN <<>>
  ELSE LET info == Head(infos)
           c == anon_counter + 1
           suffix == IF info.enum_members # <<>> THEN info.enum_members[1] ELSE DecStr(c)
       IN  IF info.enum_name = <<>>
           THEN <<[info EXCEPT !.enum_name =
                     Lit("anonymous_enum_") \o suffix \o <<"_">> \o DecStr(c)]>>
                  \o NameAnonymous(Tail(infos), c)
           ELSE <<info>> \o NameAnonymous(Tail(infos), anon_counter)

RECURSIVE TypedefMap(_, _)
TypedefMap(entries, d) ==
  IF entries = <<>> THEN d
  ELSE TypedefMap(Tail(entries), DictPutAll(d, Head(entries).aliases, Head(entries).enum_id))

\* build_enum_index: (enum_info_by_id, typedef_to_enum)
build_enum_index(root_node) ==
  LET Index(entries) == [ enum_info_by_id |-> NameAnonymous(entries, 0),
                          typedef_to_enum |-> TypedefMap(entries, <<>>) ]
      Entries(items) == Index([i \in 1..Len(items) |-> EnumEntry(items[i])])
  IN  Entries(dfs_collect(root_node, <<>>, <<>>))

\* enum_info_by_id.get(enum_id): <<>> for None
EnumInfo(index, enum_id) ==
  SelectSeq(index.enum_info_by_id, LAMBDA e : e.enum_id = enum_id)

NoEnum == [enum_id |-> <<"None">>, enum_name |-> <<>>, enum_members |-> <<>>]

\* detect_enum_for_declaration taking the first alias of typedef_to_enum whether or
\* not the declaration's text contains it
detect_enum_by_first_alias(decl_node, path, index) ==
  LET Resolve(full_text, local_enums, info, hits, hit) ==
        IF Contains(full_text, Lit("enum"))
        THEN IF local_enums # <<>>
             THEN IF info # <<>>
                  THEN [enum_id |-> info[1].enum_id, enum_name |-> info[1].enum_name,
                        enum_members |-> info[1].enum_members]
                  ELSE [enum_id |-> local_enums[1].id, enum_name |-> <<>>,
                        enum_members |-> find_enum_members(local_enums[1].node)]
             ELSE NoEnum
        ELSE IF hits # <<>>
             THEN [enum_id |-> hit.enum_id, enum_name |-> hit.enum_name,
                   enum_members |-> hit.enum_members]
             ELSE NoEnum
      Aliases(full_text, local_enums, hits) ==
        Resolve(full_text, local_enums, EnumInfo(index, local_enums[1].id), hits,
                EnumInfo(index, hits[1].val)[1])
      Local(full_text) ==
        Aliases(full_text, find_all_at(decl_node, Lit("EnumType"), path),
                SelectSeq(index.typedef_to_enum, LAMBDA e : e.key # <<>>))
  IN  Local(collect_identifiers_inline(decl_node))

\* detect_enum_for_declaration: the enum of a declaration, NoEnum for enum_id None
detect_enum_for_declaration(decl_node, path, index) ==
  LET Resolve(full_text, local_enums, info, hits, hit) ==
        IF Contains(full_text, Lit("enum"))
        THEN IF local_enums # <<>>
             THEN IF info # <<>>
                  THEN [enum_id |-> info[1].enum_id, enum_name |-> info[1].enum_name,
                        enum_members |-> info[1].enum_members]
                  ELSE [enum_id |-> local_enums[1].id, enum_name |-> <<>>,
                        enum_members |-> find_enum_members(local_enums[1].node)]
             ELSE NoEnum
        ELSE IF hits # <<>>
             THEN [enum_id |-> hit.enum_id, enum_name |-> hit.enum_name,
                   enum_members |-> hit.enum_members]
             ELSE NoEnum
      Aliases(full_text, local_enums, hits) ==
        Resolve(full_text, local_enums, EnumInfo(index, local_enums[1].id), hits,
                EnumInfo(index, hits[1].val)[1])
      Local(full_text) ==
        Aliases(full_text, find_all_at(decl_node, Lit("EnumType"), path),
                SelectSeq(index.typedef_to_enum,
                          LAMBDA e : e.key # <<>> /\ Contains(full_text, e.key)))
  IN  Local(collect_identifiers_inline(decl_node))

extract_var_names_from_declaration(decl_node, enum_name, enum_members) ==
  LET id_nodes == find_all(decl_node, Lit("Identifier"))
      all_ids == NonEmpty([i \in 1..Len(id_nodes) |-> text_of(id_nodes[i])])
      to_skip == {enum_members[i] : i \in 1..Len(enum_members)}
                   \cup keyword_like \cup {Lit("typedef")}
                   \cup (IF enum_name # <<>> THEN {enum_name} ELSE {})
  IN  Dedup(SelectSeq(all_ids, LAMBDA name : name \notin to_skip))

scope_kinds ==
  (Lit("ModuleDeclaration") :> Lit("module")) @@
  (Lit("InterfaceDeclaration") :> Lit("interface")) @@
  (Lit("PackageDeclaration") :> Lit("package")) @@
  (Lit("ClassDeclaration") :> Lit("class")) @@
  (Lit("ProgramDeclaration") :> Lit("program")) @@
  (Lit("CheckerDeclaration") :> Lit("checker")) @@
  (Lit("ConfigDeclaration") :> Lit("config"))

\* f"{prefix} {nm}".strip()
ScopeLabel(node) == Strip(scope_kinds[kind(node)] \o <<" ">> \o first_identifier_text(node))

\* the enum variables one *Declaration node declares
DeclResults(node, path, scope_str, index) ==
  LET Results(enum_info, var_names) ==
        IF enum_info.enum_id = <<"None">> THEN <<>>
        ELSE [i \in 1..Len(var_names) |->
                [ var_name |-> var_names[i], enum_name |-> enum_info.enum_name,
                  enum_members |-> enum_info.enum_members, scope |-> scope_str ]]
      Vars(enum_info) ==
        Results(enum_info,
                extract_var_names_from_declaration(
                  node, enum_info.enum_name, enum_info.enum_members))
  IN  Vars(detect_enum_for_declaration(node, path, index))

\* dfs of detect_enum_variables_from_cst; scope_str is the top of scope_stack
RECURSIVE EnumVarsDfs(_, _, _, _)
EnumVarsDfs(node, path, scope_str, index) ==
  LET k == kind(node)
      Kids(s) == Join([i \in 1..Len(node.kids) |->
                         EnumVarsDfs(node.kids[i], Append(path, i), s, index)])
  IN  IF k \in DOMAIN scope_kinds THEN Kids(ScopeLabel(node))
      ELSE (IF EndsWith(k, Lit("Declaration"))
              THEN DeclResults(node, path, scope_str, index) ELSE <<>>)
             \o Kids(scope_str)

\* the global de-duplication: the key is (var_name, enum_name, scope, line, column),
\* and the tree interface gives no line and no column
RECURSIVE UniqueVars(_)
UniqueVars(rs) ==
  IF rs = <<>> THEN <<>>
  ELSE LET r == UniqueVars(SubSeq(rs, 1, Len(rs) - 1))
           x == rs[Len(rs)]
       IN  IF \E i \in 1..Len(r) : /\ r[i].var_name = x.var_name
                                   /\ r[i].enum_name = x.enum_name
                                   /\ r[i].scope = x.scope
           THEN r ELSE Append(r, x)

detect_enum_variables_from_cst(root) ==
  LET Vars(index) == IF index.enum_info_by_id = <<>> THEN <<>>
                     ELSE UniqueVars(EnumVarsDfs(root, <<>>, <<>>, index))
  IN  Vars(build_enum_index(root))

-----------------------------------------------------------------------------
(* FSM candidate filter (fsm_enum_candidates_cst.py).                      *)

\* every node of the tree, tokens included, in pre-order
RECURSIVE AllNodes(_)
AllNodes(n) == <<n>> \o Join([i \in 1..Len(n.kids) |-> AllNodes(n.kids[i])])

is_used_in_case(root_node, var_name) ==
  LET case_nodes == SelectSeq(AllNodes(root_node), LAMBDA x : StartsWith(kind(x), Lit("Case")))
  IN  /\ var_name # <<>>
      /\ \E i \in 1..Len(case_nodes) :
           Contains(collect_identifiers_inline(case_nodes[i]), var_name)

is_assigned_in_clocked_always(root_node, var_name) ==
  LET always_nodes == find_all(root_node, Lit("AlwaysConstruct"))
                        \o find_all(root_node, Lit("AlwaysStatement"))
  IN  /\ var_name # <<>>
      /\ \E i \in 1..Len(always_nodes) :
           LET txt == collect_identifiers_inline(always_nodes[i])
           IN  /\ Contains(txt, var_name)
               /\ (Contains(txt, Lit("posedge")) \/ Contains(txt, Lit("negedge")))

IsFsmCandidate(root, item) ==
  \/ Contains(Lower(item.var_name), Lit("state"))
  \/ Contains(Lower(item.enum_name), Lit("state"))
  \/ is_used_in_case(root, item.var_name)
  \/ is_assigned_in_clocked_always(root, item.var_name)

detect_fsm_enum_candidates_from_cst(root) ==
  SelectSeq(detect_enum_variables_from_cst(root), LAMBDA item : IsFsmCandidate(root, item))

-----------------------------------------------------------------------------
(* Transition graph builder (fsm_graph_builder.py).                        *)

\* _collect_scope_nodes: the (label, node) pairs in pre-order; the dict keeps the
\* last node of each label
RECURSIVE ScopeNodeList(_)
ScopeNodeList(n) ==
  (IF kind(n) \in DOMAIN scope_kinds
     THEN <<[label |-> ScopeLabel(n), node |-> n]>> ELSE <<>>)
    \o Join([i \in 1..Len(n.kids) |-> ScopeNodeList(n.kids[i])])

\* scope_nodes.get(scope): <<>> for None
ScopeNode(root, scope) ==
  LET hits == SelectSeq(ScopeNodeList(root), LAMBDA e : e.label = scope)
  IN  IF hits = <<>> THEN <<>> ELSE <<hits[Len(hits)].node>>

collect_always_nodes(scope_node) ==
  SelectSeq(AllNodes(scope_node), LAMBDA x : Contains(kind(x), Lit("Always")))

safe_text(node) == text_of(node) \o collect_identifiers_inline(node)

is_clocked_always(node) ==
  Contains(safe_text(node), Lit("posedge")) \/ Contains(safe_text(node), Lit("negedge"))

is_comb_always(node) ==
  Contains(safe_text(node), Lit("always_comb")) \/ Contains(safe_text(node), Lit("@*"))

var_written_in_always(node, var_name) ==
  LET compact == Compact(collect_identifiers_inline(node))
  IN  /\ var_name # <<>>
      /\ \/ Contains(compact, var_name \o Lit("<="))
         \/ Contains(compact, var_name \o Lit("="))

score_state_name(name) ==
  LET n == Lower(name)
  IN  (IF n = Lit("state") THEN 3 ELSE 0)
      + (IF Contains(n, Lit("state")) THEN 2 ELSE 0)
      - (IF \/ Contains(n, Lit("next")) \/ Contains(n, Lit("nxt"))
            \/ EndsWith(n, Lit("_d")) \/ EndsWith(n, Lit("_ns")) THEN 2 ELSE 0)

score_next_name(name, state_var) ==
  LET n == Lower(name)
  IN  (IF Contains(n, Lit("next")) \/ Contains(n, Lit("nxt")) THEN 3 ELSE 0)
      + (IF EndsWith(n, Lit("_d")) \/ EndsWith(n, Lit("_ns")) THEN 2 ELSE 0)
      + (IF Contains(n, Lit("state")) THEN 1 ELSE 0)
      - (IF state_var # <<>> /\ name = state_var THEN 3 ELSE 0)

\* the loop "if sc > best: best = sc": the first name of the highest score, <<>> for None
BestBy(names, scores) ==
  IF names = <<>> THEN <<>>
  ELSE names[CHOOSE i \in 1..Len(names) :
               /\ \A j \in 1..Len(names) : scores[j] <= scores[i]
               /\ \A j \in 1..(i - 1) : scores[j] < scores[i]]

\* _choose_state_and_next: [state_var, next_state_var], <<>> for None
choose_state_and_next(scope_node, vars_in_group) ==
  LET written_clock(always_nodes, name) ==
        \E i \in 1..Len(always_nodes) :
          var_written_in_always(always_nodes[i], name) /\ is_clocked_always(always_nodes[i])
      written_comb(always_nodes, name) ==
        \E i \in 1..Len(always_nodes) :
          /\ var_written_in_always(always_nodes[i], name)
          /\ ~is_clocked_always(always_nodes[i])
          /\ is_comb_always(always_nodes[i])
      Chosen(next_candidates, state_var) ==
        [ state_var |-> state_var,
          next_state_var |-> BestBy(next_candidates,
                                    [k \in 1..Len(next_candidates) |->
                                       score_next_name(next_candidates[k], state_var)]) ]
      Best(state_candidates, next_candidates) ==
        Chosen(next_candidates,
               BestBy(state_candidates,
                      [k \in 1..Len(state_candidates) |->
                         score_state_name(state_candidates[k])]))
      Candidates(names, clocked, next_candidates) ==
        Best(IF clocked = <<>> THEN names ELSE clocked, next_candidates)
      Written(always_nodes, names) ==
        Candidates(names,
                   SelectSeq(names, LAMBDA nm : written_clock(always_nodes, nm)),
                   SelectSeq(names, LAMBDA nm : written_comb(always_nodes, nm)))
  IN  Written(collect_always_nodes(scope_node),
              [i \in 1..Len(vars_in_group) |-> vars_in_group[i].var_name])

is_case_on_state(node, state_var) ==
  LET compact == Compact(collect_identifiers_inline(node))
  IN  /\ StartsWith(kind(node), Lit("Case"))
      /\ \/ Contains(compact, Lit("case(") \o state_var \o Lit(")"))
         \/ Contains(compact, Lit("uniquecase(") \o state_var \o Lit(")"))
         \/ Contains(compact, Lit("prioritycase(") \o state_var \o Lit(")"))

\* _find_case_nodes_on_state
RECURSIVE find_case_nodes_on_state(_, _)
find_case_nodes_on_state(n, state_var) ==
  (IF StartsWith(kind(n), Lit("Case")) /\ is_case_on_state(n, state_var)
     THEN <<n>> ELSE <<>>)
    \o Join([i \in 1..Len(n.kids) |-> find_case_nodes_on_state(n.kids[i], state_var)])

\* dfs_items: the outermost nodes whose kind contains "CaseItem"
RECURSIVE dfs_items(_)
dfs_items(n) ==
  IF Contains(kind(n), Lit("CaseItem")) THEN <<n>>
  ELSE Join([i \in 1..Len(n.kids) |-> dfs_items(n.kids[i])])

\* the first member of the list that occurs anywhere in the text
find_first_enum_by_list_order(enum_members, text) ==
  LET found == {i \in 1..Len(enum_members) : Find(text, enum_members[i]) # 0}
  IN  IF found = {} THEN <<>>
      ELSE enum_members[CHOOSE i \in found : \A j \in found : i <= j]

\* _find_first_enum_in_text: the member found at the smallest offset, the earlier
\* member of the list on equal offsets; <<>> for None
find_first_enum_in_text(enum_members, text) ==
  LET found == {i \in 1..Len(enum_members) : Find(text, enum_members[i]) # 0}
      idx(i) == Find(text, enum_members[i])
  IN  IF found = {} THEN <<>>
      ELSE enum_members[CHOOSE i \in found :
                          \A j \in found : idx(i) < idx(j) \/ (idx(i) = idx(j) /\ i <= j)]

\* re.match of  if\s*\((.*?)\)  at offset i: <<>> or <<[start, group, end]>>
IfMatchAt(t, i) ==
  LET j == SkipWhile(t, i + 2, SpaceChars)
      k == SkipUntil(t, j + 1, {")", "\n"})
  IN  IF MatchAt(t, i, Lit("if")) /\ j <= Len(t) /\ t[j] = "(" /\ k <= Len(t) /\ t[k] = ")"
      THEN <<[start |-> i, group |-> SubSeq(t, j + 1, k - 1), end |-> k + 1]>>
      ELSE <<>>

\* re.match of  lhs\s*<?=\s*([A-Za-z_]\w*)  at offset i
AssignMatchAt(t, i, lhs) ==
  LET Found(e, s, z) ==
        IF MatchAt(t, i, lhs) /\ e # 0 /\ s <= Len(t) /\ IsIdentStart(t[s])
        THEN <<[start |-> i, group |-> SubSeq(t, s, z - 1), end |-> z]>>
        ELSE <<>>
      Name(e, s) == Found(e, s, SkipWhile(t, s, WordChars))
      Rhs(e) == Name(e, SkipWhile(t, e, SpaceChars))
      Op(j) == Rhs(IF j + 1 <= Len(t) /\ t[j] = "<" /\ t[j + 1] = "=" THEN j + 2
                   ELSE IF j <= Len(t) /\ t[j] = "=" THEN j + 1 ELSE 0)
  IN  Op(SkipWhile(t, i + Len(lhs), SpaceChars))

\* if_pattern.finditer(text): the non-overlapping matches from left to right,
\* searching from offset i
RECURSIVE IfMatches(_, _)
IfMatches(t, i) ==
  LET Rest(m) == m \o IfMatches(t, m[1].end)
      First(at) == IF at = {} THEN <<>>
                   ELSE Rest(IfMatchAt(t, CHOOSE z \in at : \A y \in at : z <= y))
  IN  First({z \in i..Len(t) : IfMatchAt(t, z) # <<>>})

\* assign_pattern.finditer(text)
RECURSIVE AssignMatches(_, _, _)
AssignMatches(t, i, lhs) ==
  LET Rest(m) == m \o AssignMatches(t, m[1].end, lhs)
      First(at) == IF at = {} THEN <<>>
                   ELSE Rest(AssignMatchAt(t, CHOOSE z \in at : \A y \in at : z <= y, lhs))
  IN  First({z \in i..Len(t) : AssignMatchAt(t, z, lhs) # <<>>})

\* _find_assignments_with_conditions without the test "assigned_name in enum_members"
find_assignments_of_any_name(text, lhs_name, enum_members) ==
  LET CondOf(if_matches, am) ==
        LET prev_ifs == SelectSeq(if_matches, LAMBDA m : m.start < am.start)
        IN  IF prev_ifs = <<>> THEN Lit("1") ELSE Strip(prev_ifs[Len(prev_ifs)].group)
      Pairs(if_matches, hits) ==
        Dedup([i \in 1..Len(hits) |->
                 [to |-> hits[i].group, cond |-> CondOf(if_matches, hits[i])]])
  IN  Pairs(IfMatches(text, 1), AssignMatches(text, 1, lhs_name))

\* _find_assignments_with_conditions: the list of [to, cond]
find_assignments_with_conditions(text, lhs_name, enum_members) ==
  LET CondOf(if_matches, am) ==
        LET prev_ifs == SelectSeq(if_matches, LAMBDA m : m.start < am.start)
        IN  IF prev_ifs = <<>> THEN Lit("1") ELSE Strip(prev_ifs[Len(prev_ifs)].group)
      Pairs(if_matches, hits) ==
        Dedup([i \in 1..Len(hits) |->
                 [to |-> hits[i].group, cond |-> CondOf(if_matches, hits[i])]])
  IN  Pairs(IfMatches(text, 1),
            SelectSeq(AssignMatches(text, 1, lhs_name),
                      LAMBDA am : InSeq(am.group, enum_members)))

\* the transitions of one CaseItem when a branch without a member is taken for a
\* branch that holds the first state, where the code skips it
ItemTransitionsHolding(item, lhs_name, enum_members) ==
  LET Rows(item_text, from_state, assigns) ==
        IF item_text = <<>> THEN <<>>
        ELSE IF from_state = <<>>
        THEN <<[from |-> enum_members[1], to |-> enum_members[1], cond |-> Lit("1")]>>
        ELSE [i \in 1..Len(assigns) |->
                [from |-> from_state, to |-> assigns[i].to, cond |-> assigns[i].cond]]
      Text(item_text) ==
        Rows(item_text, find_first_enum_in_text(enum_members, item_text),
             find_assignments_with_conditions(item_text, lhs_name, enum_members))
  IN  Text(collect_identifiers_inline(item))

\* the transitions of one CaseItem
ItemTransitions(item, lhs_name, enum_members) ==
  LET Rows(item_text, from_state, assigns) ==
        IF item_text = <<>> \/ from_state = <<>> THEN <<>>
        ELSE [i \in 1..Len(assigns) |->
                [from |-> from_state, to |-> assigns[i].to, cond |-> assigns[i].cond]]
      Text(item_text) ==
        Rows(item_text, find_first_enum_in_text(enum_members, item_text),
             find_assignments_with_conditions(item_text, lhs_name, enum_members))
  IN  Text(collect_identifiers_inline(item))

\* _build_transitions_from_cases
build_transitions_from_cases(case_nodes, state_var, next_state_var, enum_members) ==
  LET Collect(lhs_name, items) ==
        IF lhs_name = <<>> THEN <<>>
        ELSE Join([i \in 1..Len(items) |->
                     ItemTransitions(items[i], lhs_name, enum_members)])
  IN  Collect(IF next_state_var # <<>> THEN next_state_var ELSE state_var,
              Join([i \in 1..Len(case_nodes) |-> dfs_items(case_nodes[i])]))

\* _detect_reset_state returning the last member of the list that the block's text
\* assigns, where the code returns the first
detect_reset_state_last_member(always_nodes, state_var, enum_members) ==
  LET Hit(a, m) ==
        LET compact == Compact(collect_identifiers_inline(a))
        IN  \/ Contains(compact, state_var \o Lit("=") \o m)
            \/ Contains(compact, state_var \o Lit("<=") \o m)
      Live(a) == /\ is_clocked_always(a)
                 /\ Contains(collect_identifiers_inline(a), state_var)
                 /\ \E i \in 1..Len(enum_members) : Hit(a, enum_members[i])
      Last(live) ==
        IF live = <<>> THEN <<>>
        ELSE enum_members[CHOOSE i \in 1..Len(enum_members) :
                            /\ Hit(live[1], enum_members[i])
                            /\ \A j \in (i + 1)..Len(enum_members) :
                                 ~Hit(live[1], enum_members[j])]
  IN  Last(SelectSeq(always_nodes, Live))

\* _detect_reset_state: <<>> for None
detect_reset_state(always_nodes, state_var, enum_members) ==
  LET Hit(a, m) ==
        LET compact == Compact(collect_identifiers_inline(a))
        IN  \/ Contains(compact, state_var \o Lit("=") \o m)
            \/ Contains(compact, state_var \o Lit("<=") \o m)
      Live(a) == /\ is_clocked_always(a)
                 /\ Contains(collect_identifiers_inline(a), state_var)
                 /\ \E i \in 1..Len(enum_members) : Hit(a, enum_members[i])
      First(live) ==
        IF live = <<>> THEN <<>>
        ELSE enum_members[CHOOSE i \in 1..Len(enum_members) :
                            /\ Hit(live[1], enum_members[i])
                            /\ \A j \in 1..(i - 1) : ~Hit(live[1], enum_members[j])]
  IN  First(SelectSeq(always_nodes, Live))

\* groups keyed by the scope alone: the first (scope, enum_name) key of every scope
GroupKeysByScope(cands) ==
  LET keys == [i \in 1..Len(cands) |->
                 [scope |-> cands[i].scope, enum_name |-> cands[i].enum_name]]
  IN  SelectSeq(Dedup(keys),
                LAMBDA k : k = keys[CHOOSE i \in 1..Len(keys) :
                                      /\ keys[i].scope = k.scope
                                      /\ \A j \in 1..(i - 1) : keys[j].scope # k.scope])

\* groups: the (scope, enum_name) keys in first-seen order
GroupKeys(cands) ==
  Dedup([i \in 1..Len(cands) |-> [scope |-> cands[i].scope, enum_name |-> cands[i].enum_name]])

\* enum_index[(scope, var_name)]: the last enum variable of that key, <<>> if absent
EnumIndexGet(all_enum_vars, scope, var_name) ==
  LET hits == SelectSeq(all_enum_vars, LAMBDA ev : ev.scope = scope /\ ev.var_name = var_name)
  IN  IF hits = <<>> THEN <<>> ELSE <<hits[Len(hits)]>>

\* the transitions as collected, repetitions kept
AllTransitions(ts) == ts

\* the loop over seen_edges: the transitions without repetition of a (from, to, cond) key
UniqueTransitions(ts) == Dedup(ts)

\* the body of the loop over groups: <<>> when the group is skipped, else <<graph>>
GroupGraph(root, key, fsm_candidates, all_enum_vars) ==
  LET Graph(enum_members, chosen, always_nodes, unique_transitions) ==
        << [ scope |-> key.scope,
             state_var |-> chosen.state_var,
             next_state_var |-> chosen.next_state_var,
             enum_name |-> key.enum_name,
             states |-> enum_members,
             reset_state |-> detect_reset_state(always_nodes, chosen.state_var, enum_members),
             transitions |-> unique_transitions,
             metadata |-> [ num_states |-> Len(enum_members),
                            num_transitions |-> Len(unique_transitions) ] ] >>
      Built(scope_node, enum_members, chosen) ==
        IF scope_node = <<>> \/ enum_members = <<>> THEN <<>>
        ELSE IF chosen.state_var = <<>> THEN <<>>
        ELSE Graph(enum_members, chosen, collect_always_nodes(scope_node[1]),
                   UniqueTransitions(
                     build_transitions_from_cases(
                       find_case_nodes_on_state(scope_node[1], chosen.state_var),
                       chosen.state_var, chosen.next_state_var, enum_members)))
      Members(scope_node, vars_in_group, indexed) ==
        Built(scope_node,
              IF indexed = <<>> THEN <<>>
              ELSE EnumIndexGet(all_enum_vars, key.scope, indexed[1].var_name)[1].enum_members,
              choose_state_and_next(scope_node[1], vars_in_group))
      Group(scope_node, vars_in_group) ==
        Members(scope_node, vars_in_group,
                SelectSeq(vars_in_group,
                          LAMBDA v : EnumIndexGet(all_enum_vars, key.scope, v.var_name) # <<>>))
  IN  Group(ScopeNode(root, key.scope),
            SelectSeq(fsm_candidates,
                      LAMBDA c : c.scope = key.scope /\ c.enum_name = key.enum_name))

build_fsm_graphs_from_cst(root) ==
  LET Graphs(fsm_candidates, all_enum_vars, keys) ==
        Join([i \in 1..Len(keys) |->
                GroupGraph(root, keys[i], fsm_candidates, all_enum_vars)])
      Grouped(fsm_candidates) ==
        Graphs(fsm_candidates, detect_enum_variables_from_cst(root), GroupKeys(fsm_candidates))
  IN  Grouped(SelectSeq(detect_fsm_enum_candidates_from_cst(root),
                        LAMBDA c : c.enum_name # <<>>))

-----------------------------------------------------------------------------
(* Code generator (backend/code_generator.py, FSMCodeGenerator).  A graph  *)
(* is the record returned by the graph builder; original_code_text is the  *)
(* constructor's argument.                                                 *)

\* str.split(): the whitespace-separated words of t
SplitWords(t) ==
  LET starts == Sorted({i \in 1..Len(t) :
                          ~IsSpace(t[i]) /\ (i = 1 \/ IsSpace(t[i - 1]))})
  IN  [k \in 1..Len(starts) |->
         SubSeq(t, starts[k], SkipUntil(t, starts[k], SpaceChars) - 1)]

\* _validate_graph with the check of the transitions left out
validate_graph_without_transitions(graph) ==
  IF Len(graph.states) # Cardinality({graph.states[i] : i \in 1..Len(graph.states)})
  THEN Lit("Duplicate states found")
  ELSE IF graph.reset_state # <<>> /\ ~InSeq(graph.reset_state, graph.states)
  THEN Lit("Reset state ") \o graph.reset_state \o Lit(" not in states list")
  ELSE <<>>

\* _validate_graph: the message of the ValueError it raises, <<>> when it returns
validate_graph(graph) ==
  LET states == graph.states
      transitions == graph.transitions
      reset_state == graph.reset_state
      bad(i) == ~InSeq(transitions[i].from, states) \/ ~InSeq(transitions[i].to, states)
  IN  IF Len(states) # Cardinality({states[i] : i \in 1..Len(states)})
      THEN Lit("Duplicate states found")
      ELSE IF \E i \in 1..Len(transitions) : bad(i)
      THEN LET i == CHOOSE i \in 1..Len(transitions) : bad(i) /\ \A j \in 1..(i - 1) : ~bad(j)
               trans == transitions[i]
           IN  IF ~InSeq(trans.from, states)
               THEN Lit("Transition from unknown state: ") \o trans.from
               ELSE Lit("Transition to unknown state: ") \o trans.to
      ELSE IF reset_state # <<>> /\ ~InSeq(reset_state, states)
      THEN Lit("Reset state ") \o reset_state \o Lit(" not in states list")
      ELSE <<>>

\* _detect_fsm_style
detect_fsm_style(graph) ==
  IF graph.next_state_var # <<>> THEN "two_register" ELSE "single_register"

\* _calculate_enum_width
calculate_enum_width(num_states) ==
  IF num_states <= 2 THEN 1
  ELSE IF num_states <= 4 THEN 2
  ELSE IF num_states <= 8 THEN 3
  ELSE IF num_states <= 16 THEN 4
  ELSE CHOOSE w \in 5..num_states : 2^w >= num_states /\ 2^(w - 1) < num_states

\* _generate_enum
generate_enum(graph) ==
  LET enum_name == graph.enum_name
      states == graph.states
      width == calculate_enum_width(Len(states))
      state_lines == [i \in 1..Len(states) |-> Lit("    ") \o states[i]]
  IN  IF states = <<>>
      THEN Lit("typedef enum logic [1:0] {} ") \o enum_name \o Lit(";")
      ELSE JoinWith(<<"\n">>,
             << Lit("  typedef enum logic [") \o DecStr(width - 1) \o Lit(":0] {"),
                JoinWith(<<",", "\n">>, state_lines),
                Lit("  } ") \o enum_name \o Lit(";") >>)

\* _generate_variable_declarations
generate_variable_declarations(graph) ==
  LET enum_name == graph.enum_name
      lines == << Lit("  ") \o enum_name \o Lit(" ") \o graph.state_var \o Lit(";") >>
  IN  JoinWith(<<"\n">>,
        IF graph.next_state_var # <<>>
        THEN Append(lines, Lit("  ") \o enum_name \o Lit(" ") \o graph.next_state_var \o Lit(";"))
        ELSE lines)

\* r'always_ff\s*@\s*\(' matched at i: the index after the parenthesis, 0 for no match
SensitivityStart(t, i) ==
  IF ~MatchAt(t, i, Lit("always_ff")) THEN 0
  ELSE LET a == SkipWhile(t, i + 9, SpaceChars)
       IN  IF a > Len(t) \/ t[a] # "@" THEN 0
           ELSE LET b == SkipWhile(t, a + 1, SpaceChars)
                IN  IF b > Len(t) \/ t[b] # "(" THEN 0 ELSE b + 1

\* kw followed by r'\s+(\w+)' matched at j: the group, <<>> for no match
EdgeWordAt(t, j, kw) ==
  IF ~MatchAt(t, j, kw) THEN <<>>
  ELSE LET a == j + Len(kw)
           b == SkipWhile(t, a, SpaceChars)
           c == SkipWhile(t, b, WordChars)
       IN  IF b = a \/ c = b THEN <<>> ELSE SubSeq(t, b, c - 1)

\* _extract_clock_signal
extract_clock_signal(original_code_text) ==
  LET t == original_code_text
      word(i) == EdgeWordAt(t, SensitivityStart(t, i), Lit("posedge"))
      hits == {i \in 1..Len(t) : SensitivityStart(t, i) # 0 /\ word(i) # <<>>}
  IN  IF hits # {} THEN word(CHOOSE i \in hits : \A j \in hits : i <= j) ELSE Lit("clk")

\* _extract_reset_signal: the greedy [^)]* leaves the last edge keyword of the list
extract_reset_signal(original_code_text) ==
  LET t == original_code_text
      word(p) == IF EdgeWordAt(t, p, Lit("posedge")) # <<>>
                 THEN EdgeWordAt(t, p, Lit("posedge"))
                 ELSE EdgeWordAt(t, p, Lit("negedge"))
      edges(i) == LET s == SensitivityStart(t, i)
                  IN  IF s = 0 THEN {}
                      ELSE {p \in s..SkipUntil(t, s, {")"}) : word(p) # <<>>}
      hits == {i \in 1..Len(t) : edges(i) # {}}
  IN  IF hits # {}
      THEN LET i == CHOOSE i \in hits : \A j \in hits : i <= j
           IN  word(CHOOSE p \in edges(i) : \A q \in edges(i) : q <= p)
      ELSE Lit("rst")

\* _extract_reset_polarity
extract_reset_polarity(original_code_text) ==
  IF /\ Contains(original_code_text, Lit("negedge"))
     /\ Contains(Lower(original_code_text), Lit("rst"))
  THEN Lit("negedge") ELSE Lit("posedge")

\* _generate_always_ff
generate_always_ff(graph, style, original_code_text) ==
  LET state_var == graph.state_var
      next_state_var == graph.next_state_var
      reset_state == graph.reset_state
      clock_signal == extract_clock_signal(original_code_text)
      reset_signal == extract_reset_signal(original_code_text)
      reset_polarity == extract_reset_polarity(original_code_text)
      reset_condition == IF reset_polarity = Lit("negedge") THEN <<"!">> ELSE <<>>
  IN  JoinWith(<<"\n">>,
        << Lit("  always_ff @(posedge ") \o clock_signal \o Lit(" or ") \o reset_polarity
             \o Lit(" ") \o reset_signal \o Lit(") begin") >>
        \o (IF reset_state # <<>>
            THEN << Lit("    if (") \o reset_condition \o reset_signal \o Lit(")"),
                    Lit("      ") \o state_var \o Lit(" <= ") \o reset_state \o Lit(";"),
                    Lit("    else") >>
            ELSE <<>>)
        \o << Lit("      ") \o state_var \o Lit(" <= ")
                \o (IF next_state_var # <<>> THEN next_state_var ELSE state_var) \o Lit(";"),
              Lit("  end") >>)

\* a variant that lists every edge of the graph in every branch
generate_always_comb_ungrouped(graph, style) ==
  LET state_var == graph.state_var
      next_state_var == graph.next_state_var
      transitions == graph.transitions
      states == graph.states
      lhs == IF next_state_var # <<>> THEN next_state_var ELSE state_var
      transitions_by_state(from_state) ==
        SelectSeq(transitions, LAMBDA trans : from_state = from_state)
      trans_lines(trans, i) ==
        IF trans.cond = <<"1">> \/ trans.cond = <<>>
        THEN << Lit("        ") \o lhs \o Lit(" = ") \o trans.to \o Lit(";") >>
        ELSE << (IF i = 0 THEN Lit("        if (") ELSE Lit("        else if ("))
                  \o trans.cond \o Lit(")"),
                Lit("          ") \o lhs \o Lit(" = ") \o trans.to \o Lit(";") >>
      state_lines(from_state) ==
        LET state_transitions == transitions_by_state(from_state)
        IN  << Lit("      ") \o from_state \o Lit(": begin") >>
            \o (IF state_transitions = <<>>
                THEN << Lit("        ") \o lhs \o Lit(" = ") \o from_state \o Lit(";") >>
                ELSE Join([i \in 1..Len(state_transitions) |->
                             trans_lines(state_transitions[i], i - 1)]))
            \o << Lit("      end") >>
  IN  JoinWith(<<"\n">>,
        << Lit("  always_comb begin") >>
        \o (IF next_state_var # <<>>
            THEN << Lit("    ") \o next_state_var \o Lit(" = ") \o state_var \o Lit(";") >>
            ELSE <<>>)
        \o << Lit("    unique case (") \o state_var \o Lit(")") >>
        \o Join([k \in 1..Len(states) |-> state_lines(states[k])])
        \o << Lit("      default: begin"),
              Lit("        ") \o lhs \o Lit(" = ") \o state_var \o Lit(";"),
              Lit("      end"),
              Lit("    endcase"),
              Lit("  end") >>)

\* _generate_always_comb
generate_always_comb(graph, style) ==
  LET state_var == graph.state_var
      next_state_var == graph.next_state_var
      transitions == graph.transitions
      states == graph.states
      lhs == IF next_state_var # <<>> THEN next_state_var ELSE state_var
      transitions_by_state(from_state) ==
        SelectSeq(transitions, LAMBDA trans : trans.from = from_state)
      trans_lines(trans, i) ==
        IF trans.cond = <<"1">> \/ trans.cond = <<>>
        THEN << Lit("        ") \o lhs \o Lit(" = ") \o trans.to \o Lit(";") >>
        ELSE << (IF i = 0 THEN Lit("        if (") ELSE Lit("        else if ("))
                  \o trans.cond \o Lit(")"),
                Lit("          ") \o lhs \o Lit(" = ") \o trans.to \o Lit(";") >>
      state_lines(from_state) ==
        LET state_transitions == transitions_by_state(from_state)
        IN  << Lit("      ") \o from_state \o Lit(": begin") >>
            \o (IF state_transitions = <<>>
                THEN << Lit("        ") \o lhs \o Lit(" = ") \o from_state \o Lit(";") >>
                ELSE Join([i \in 1..Len(state_transitions) |->
                             trans_lines(state_transitions[i], i - 1)]))
            \o << Lit("      end") >>
  IN  JoinWith(<<"\n">>,
        << Lit("  always_comb begin") >>
        \o (IF next_state_var # <<>>
            THEN << Lit("    ") \o next_state_var \o Lit(" = ") \o state_var \o Lit(";") >>
            ELSE <<>>)
        \o << Lit("    unique case (") \o state_var \o Lit(")") >>
        \o Join([k \in 1..Len(states) |-> state_lines(states[k])])
        \o << Lit("      default: begin"),
              Lit("        ") \o lhs \o Lit(" = ") \o state_var \o Lit(";"),
              Lit("      end"),
              Lit("    endcase"),
              Lit("  end") >>)

\* _assemble_code
assemble_code(module_name, enum_code, var_declarations, always_ff_code, always_comb_code) ==
  JoinWith(<<"\n">>,
    << Lit("module ") \o module_name \o Lit(" ("),
       Lit("  input  logic clk,"),
       Lit("  input  logic rst,"),
       Lit("  // TODO: add other ports as needed"),
       Lit(");"),
       <<>>,
       enum_code,
       <<>>,
       var_declarations,
       <<>>,
       always_ff_code,
       <<>>,
       always_comb_code,
       <<>>,
       Lit("endmodule : ") \o module_name >>)

\* generate_code_from_graph: the text it returns, or the ValueError it raises
generate_code_from_graph(graph, module_name, original_code_text) ==
  LET message == validate_graph(graph)
      parts == SplitWords(graph.scope)
      name == IF module_name # <<>> THEN module_name
              ELSE IF Len(parts) > 1 THEN parts[Len(parts)] ELSE Lit("fsm_example")
      fsm_style == detect_fsm_style(graph)
  IN  IF message # <<>> THEN [kind |-> "ValueError", text |-> message]
      ELSE [kind |-> "code",
            text |-> assemble_code(name,
                                   generate_enum(graph),
                                   generate_variable_declarations(graph),
                                   generate_always_ff(graph, fsm_style, original_code_text),
                                   generate_always_comb(graph, fsm_style))]

-----------------------------------------------------------------------------
(* Inputs.                                                                 *)

\* a source text given by its lines
Source(lines) == JoinWith(<<"\n">>, lines)

\* test_fsm_graph_builder.py, TEST_1_SV: the classic two-process FSM
Test1Source ==
  Source(<< Lit("package defs;"),
            Lit("  typedef enum logic [2:0] {IDLE, REQ, WAIT, GNT} state_t;"),
            Lit("endpackage"),
            Lit("module fsm_example(input logic clk, input logic rst,"),
            Lit("                   input logic req, input logic gnt, output logic gr);"),
            Lit("  import defs::*;"),
            Lit("  state_t state, next_state;"),
            Lit("  always_ff @(posedge clk or posedge rst) begin"),
            Lit("    if (rst)"),
            Lit("      state <= IDLE;"),
            Lit("    else"),
            Lit("      state <= next_state;"),
            Lit("  end"),
            Lit("  always_comb begin"),
            Lit("    next_state = state;"),
            Lit("    unique case (state)"),
            Lit("      IDLE: if (req)       next_state = REQ;"),
            Lit("      REQ:                 next_state = WAIT;"),
            Lit("      WAIT: if (gnt)       next_state = GNT;"),
            Lit("      GNT:                 next_state = IDLE;"),
            Lit("    endcase"),
            Lit("  end"),
            Lit("endmodule") >>)

\* the body of an enum declaration in one of three spellings: members only,
\* members with value initializers, one member per line with a comment
EnumBody(spelling, members) ==
  LET n == Len(members)
      sep(k) == IF k < n THEN <<",">> ELSE <<>>
  IN  IF spelling = "comment"
      THEN Lit("{")
             \o Join([k \in 1..n |->
                        <<"\n">> \o Lit("    ") \o members[k] \o sep(k)
                          \o (IF k = 1 THEN Lit(" // reset state") ELSE <<>>)])
             \o <<"\n">> \o Lit("  }")
      ELSE Lit("{")
             \o JoinWith(Lit(", "),
                  [k \in 1..n |->
                     members[k] \o (IF spelling = "init"
                                    THEN Lit(" = 2'd") \o DecStr(k - 1) ELSE <<>>)])
             \o Lit("}")

\* the case items of a ring over the members: member k goes to member k+1, under
\* the guard go when k is odd; an item is a bare statement ("inline"), a
\* begin/end block ("block"), or a block whose else branch holds the state ("hold")
RingItems(shape, members, sv, nv) ==
  LET n == Len(members)
      assign(k) == nv \o Lit(" = ") \o members[(k % n) + 1] \o Lit(";")
      item(k) ==
        IF k % 2 = 0
        THEN << Lit("      ") \o members[k] \o Lit(": ") \o assign(k) >>
        ELSE IF shape = "inline"
        THEN << Lit("      ") \o members[k] \o Lit(": if (go) ") \o assign(k) >>
        ELSE << Lit("      ") \o members[k] \o Lit(": begin"),
                Lit("        if (go) ") \o assign(k) >>
             \o (IF shape = "hold"
                 THEN << Lit("        else ") \o nv \o Lit(" = ") \o sv \o Lit(";") >>
                 ELSE <<>>)
             \o << Lit("      end") >>
  IN  Join([k \in 1..n |-> item(k)])

\* the clocked register block of a two-process FSM
RegisterBlock(sv, nv, reset_member) ==
  << Lit("  always_ff @(posedge clk or posedge rst) begin"),
     Lit("    if (rst)"),
     Lit("      ") \o sv \o Lit(" <= ") \o reset_member \o Lit(";"),
     Lit("    else"),
     Lit("      ") \o sv \o Lit(" <= ") \o nv \o Lit(";"),
     Lit("  end") >>

\* the combinational next-state block
NextStateBlock(sv, nv, items) ==
  << Lit("  always_comb begin"),
     Lit("    ") \o nv \o Lit(" = ") \o sv \o Lit(";"),
     Lit("    case (") \o sv \o Lit(")") >>
  \o items
  \o << Lit("    endcase"),
        Lit("  end") >>

\* a module with one two-process FSM; p.decl says where and how the enum is declared
\* ("package", "module", "init", "comment", "inline"), p.twice repeats the
\* next-state block
FsmSource(p) ==
  LET sv == p.vars[1]
      nv == p.vars[2]
      spelling == IF p.decl \in {"init", "comment"} THEN p.decl ELSE "plain"
      typedef == Lit("  typedef enum logic [1:0] ") \o EnumBody(spelling, p.members)
                   \o Lit(" state_t;")
      comb == NextStateBlock(sv, nv, RingItems(p.shape, p.members, sv, nv))
  IN  Source(
        (IF p.decl = "package"
         THEN << Lit("package defs;"), typedef, Lit("endpackage") >> ELSE <<>>)
        \o << Lit("module fsm(input logic clk, input logic rst, input logic go);") >>
        \o (IF p.decl = "package" THEN << Lit("  import defs::*;") >>
            ELSE IF p.decl = "inline" THEN <<>>
            ELSE << typedef >>)
        \o (IF p.decl = "inline"
            THEN << Lit("  enum logic [1:0] ") \o EnumBody(spelling, p.members)
                      \o Lit(" ") \o sv \o Lit(", ") \o nv \o Lit(";") >>
            ELSE << Lit("  state_t ") \o sv \o Lit(", ") \o nv \o Lit(";") >>)
        \o RegisterBlock(sv, nv, p.members[1])
        \o comb
        \o (IF p.twice THEN comb ELSE <<>>)
        \o << Lit("endmodule") >>)

MemberLists ==
  { <<Lit("IDLE"), Lit("REQ"), Lit("WAIT"), Lit("GNT")>>,
    <<Lit("S"), Lit("S1")>>,
    <<Lit("S1"), Lit("S")>> }

FsmSources ==
  { FsmSource(p) :
      p \in [decl : {"package", "module", "init", "comment", "inline"},
             members : MemberLists,
             vars : {<<Lit("state"), Lit("next_state")>>, <<Lit("cs"), Lit("ns")>>},
             shape : {"inline", "block", "hold"},
             twice : BOOLEAN] }

\* test_fsm_graph_builder.py, TEST_4_SV: two FSMs in one module, with the names of
\* the two enum types as parameters
TwoFsmSource(type_a, type_b) ==
  Source(
    << Lit("module two_fsms ("),
       Lit("    input  logic clk,"),
       Lit("    input  logic rst,"),
       Lit("    input  logic start,"),
       Lit("    input  logic done,"),
       Lit("    input  logic err"),
       Lit(");"),
       Lit("  typedef enum logic [1:0] {IDLE, RUN} ") \o type_a \o Lit(";"),
       Lit("  typedef enum logic [1:0] {OK, FAIL} ") \o type_b \o Lit(";"),
       <<>>,
       Lit("  ") \o type_a \o Lit("   ctrl_state, ctrl_next;"),
       Lit("  ") \o type_b \o Lit(" stat_state, stat_next;"),
       <<>>,
       Lit("  // FSM 1: ctrl") >>
    \o RegisterBlock(Lit("ctrl_state"), Lit("ctrl_next"), Lit("IDLE"))
    \o << <<>> >>
    \o NextStateBlock(Lit("ctrl_state"), Lit("ctrl_next"),
         << Lit("      IDLE: if (start) ctrl_next = RUN;"),
            Lit("      RUN:  if (done)  ctrl_next = IDLE;") >>)
    \o << <<>>, Lit("  // FSM 2: status") >>
    \o RegisterBlock(Lit("stat_state"), Lit("stat_next"), Lit("OK"))
    \o << <<>> >>
    \o NextStateBlock(Lit("stat_state"), Lit("stat_next"),
         << Lit("      OK:   if (err)  stat_next = FAIL;"),
            Lit("      FAIL: if (!err) stat_next = OK;") >>)
    \o << <<>>, Lit("endmodule") >>)

TwoFsmSources ==
  { TwoFsmSource(ts[1], ts[2]) :
      ts \in { <<Lit("ctrl_t"), Lit("status_t")>>,
               <<Lit("st_t"), Lit("fast_t")>>,
               <<Lit("fast_t"), Lit("st_t")>> } }

\* sources that declare no variable of an enum type: q.typedef declares an enum
\* type that no variable has, q.var names the only variable, a logic vector the
\* case statement branches on
NoEnumVarSource(q) ==
  Source(
    << Lit("module sel(input logic clk, input logic [1:0] a, output logic y);") >>
    \o (IF q.typedef THEN << Lit("  typedef enum logic [1:0] {IDLE, RUN} st_t;") >> ELSE <<>>)
    \o << Lit("  logic [1:0] ") \o q.var \o Lit(";"),
          Lit("  always_ff @(posedge clk)"),
          Lit("    ") \o q.var \o Lit(" <= a;"),
          Lit("  always_comb begin"),
          Lit("    y = 0;"),
          Lit("    case (") \o q.var \o Lit(")"),
          Lit("      0: y = 1;"),
          Lit("      default: y = 0;"),
          Lit("    endcase"),
          Lit("  end"),
          Lit("endmodule") >>)

NoEnumVarSources ==
  { NoEnumVarSource(q) : q \in [typedef : BOOLEAN, var : {Lit("mode"), Lit("st_t_sel")}] }
    \cup { <<>>,
           Source(<< Lit("package defs;"),
                     Lit("  typedef enum logic [1:0] {IDLE, RUN} st_t;"),
                     Lit("endpackage") >>) }

\* a module whose two-process FSM has an enum type written in place
AnonModule(name, members, sv, nv) ==
  << Lit("module ") \o name \o Lit("(input logic clk, input logic rst, input logic go);"),
     Lit("  enum logic [1:0] ") \o EnumBody("plain", members)
       \o Lit(" ") \o sv \o Lit(", ") \o nv \o Lit(";") >>
  \o RegisterBlock(sv, nv, members[1])
  \o NextStateBlock(sv, nv, RingItems("inline", members, sv, nv))
  \o << Lit("endmodule") >>

\* two modules, each with an enum type written in place; a.named puts a module
\* with a typedef'd enum between them
AnonSource(a) ==
  Source(AnonModule(Lit("first"), a.one, Lit("state"), Lit("next_state"))
         \o (IF a.named
             THEN << Lit("module mid(input logic clk);"),
                     Lit("  typedef enum logic {OFF, ON} sw_t;"),
                     Lit("  sw_t sw;"),
                     Lit("endmodule") >>
             ELSE <<>>)
         \o AnonModule(Lit("second"), a.two, Lit("cs"), Lit("ns")))

AnonSources ==
  { AnonSource(a) :
      a \in [one : {<<Lit("S"), Lit("S1")>>},
             two : {<<Lit("S"), Lit("S1")>>, <<Lit("S"), Lit("S2")>>, <<Lit("S1"), Lit("S")>>},
             named : BOOLEAN] }

\* test_fsm_graph_builder.py, TEST_3_SV: a single-register FSM, its case inside
\* the clocked block; s.members is the declaration order, s.reset the index of
\* the member the reset branch assigns; member k goes to member k+1, under the
\* guard x when k is odd
SingleFsmSource(s) ==
  LET n == Len(s.members)
      item(k) == Lit("        ") \o s.members[k] \o Lit(": ")
                   \o (IF k % 2 = 1 THEN Lit("if (x) ") ELSE <<>>)
                   \o Lit("state <= ") \o s.members[(k % n) + 1] \o Lit(";")
  IN  Source(
        << Lit("module single_state_fsm ("),
           Lit("    input  logic clk,"),
           Lit("    input  logic rst,"),
           Lit("    input  logic x"),
           Lit(");"),
           Lit("  typedef enum logic [1:0] ") \o EnumBody("plain", s.members) \o Lit(" state_t;"),
           Lit("  state_t state;"),
           <<>>,
           Lit("  always_ff @(posedge clk or posedge rst) begin"),
           Lit("    if (rst)"),
           Lit("      state <= ") \o s.members[s.reset] \o Lit(";"),
           Lit("    else begin"),
           Lit("      case (state)") >>
        \o [k \in 1..n |-> item(k)]
        \o << Lit("      endcase"),
              Lit("    end"),
              Lit("  end"),
              <<>>,
              Lit("endmodule") >>)

SingleFsmSources ==
  { SingleFsmSource(s) :
      s \in { x \in [members : { <<Lit("A"), Lit("B"), Lit("C")>>,
                                 <<Lit("B"), Lit("A"), Lit("C")>>,
                                 <<Lit("S"), Lit("S1")>>,
                                 <<Lit("S1"), Lit("S")>> },
                     reset : 1..3] : x.reset <= Len(x.members) } }

\* test_fsm_graph_builder.py, TEST_10_SV: always @* and casez, with the words
\* that open the case statement as a parameter
Test10Source(case_words) ==
  Source(<< Lit("module casez_fsm ("),
            Lit("    input  logic clk,"),
            Lit("    input  logic rst_n,"),
            Lit("    input  logic en"),
            Lit(");"),
            Lit("  typedef enum logic [1:0] {S0, S1} st_t;"),
            <<>>,
            Lit("  st_t state, next_state;"),
            <<>>,
            Lit("  always_ff @(posedge clk or negedge rst_n) begin"),
            Lit("    if (!rst_n)"),
            Lit("      state <= S0;"),
            Lit("    else"),
            Lit("      state <= next_state;"),
            Lit("  end"),
            <<>>,
            Lit("  always @* begin"),
            Lit("    next_state = state;"),
            Lit("    ") \o case_words \o Lit(" (state)"),
            Lit("      S0: if (en) next_state = S1;"),
            Lit("      S1: if (!en) next_state = S0;"),
            Lit("    endcase"),
            Lit("  end"),
            <<>>,
            Lit("endmodule") >>)

CaseWordings ==
  { Lit("case"), Lit("casex"), Lit("casez"), Lit("unique case"), Lit("priority case"),
    Lit("unique casez"), Lit("priority casex") }

Test10Sources == { Test10Source(w) : w \in CaseWordings }

\* test_fsm_graph_builder.py, TEST_9_SV: an enum written in place whose variable names
\* the type of the state variables, and branches with a plain else
Test9Source ==
  Source(<< Lit("module detect_4_bit_sequence_using_fsm"),
            Lit("("),
            Lit("  input  logic clk,"),
            Lit("  input  logic rst,"),
            Lit("  input  logic a,"),
            Lit("  output logic detected"),
            Lit(");"),
            <<>>,
            Lit("  // States (F - First, S - Second)"),
            Lit("  enum logic[2:0]"),
            Lit("  {"),
            Lit("     IDLE = 3'b001,"),
            Lit("     F1   = 3'b000,"),
            Lit("     F0   = 3'b010,"),
            Lit("     S1   = 3'b011,"),
            Lit("     S0   = 3'b100"),
            Lit("  }"),
            Lit("  fsm_state;"),
            <<>>,
            Lit("  fsm_state next_state;"),
            Lit("  fsm_state state;"),
            <<>>,
            Lit("  // State transition logic"),
            Lit("  always_comb begin"),
            Lit("    next_state = state;"),
            Lit("    case (state)"),
            Lit("      IDLE: if (  a) next_state = F1;"),
            Lit("      F1:   if (~ a) next_state = F0;"),
            Lit("      F0:   if (  a) next_state = S1;"),
            Lit("            else     next_state = IDLE;"),
            Lit("      S1:   if (~ a) next_state = S0;"),
            Lit("            else     next_state = F1;"),
            Lit("      S0:   if (  a) next_state = S1;"),
            Lit("            else     next_state = IDLE;"),
            Lit("    endcase"),
            Lit("  end"),
            <<>>,
            Lit("  // Output logic (depends only on the current state)"),
            Lit("  assign detected = (state == S0);"),
            <<>>,
            Lit("  // State update"),
            Lit("  always_ff @ (posedge clk or posedge rst)"),
            Lit("    if (rst)"),
            Lit("      state <= IDLE;"),
            Lit("    else"),
            Lit("      state <= next_state;"),
            <<>>,
            Lit("endmodule") >>)

\* test_fsm_graph_builder.py, TEST_7_SV: if / else if and an error branch, with
\* the condition under which RUN goes to ERR as a parameter
Test7Source(run_cond) ==
  Source(<< Lit("module fsm_with_error ("),
            Lit("    input  logic clk,"),
            Lit("    input  logic rst,"),
            Lit("    input  logic start,"),
            Lit("    input  logic fault,"),
            Lit("    input  logic clear"),
            Lit(");"),
            Lit("  typedef enum logic [1:0] {IDLE, RUN, ERR} fsm_t;"),
            <<>>,
            Lit("  fsm_t state, next_state;"),
            <<>> >>
         \o RegisterBlock(Lit("state"), Lit("next_state"), Lit("IDLE"))
         \o << <<>>,
               Lit("  always_comb begin"),
               Lit("    next_state = state;"),
               Lit("    case (state)"),
               Lit("      IDLE: begin"),
               Lit("        if (start)      next_state = RUN;"),
               Lit("        else if (fault) next_state = ERR;"),
               Lit("      end"),
               Lit("      RUN: begin"),
               Lit("        if (") \o run_cond \o Lit(") next_state = ERR;"),
               Lit("      end"),
               Lit("      ERR: begin"),
               Lit("        if (clear) next_state = IDLE;"),
               Lit("      end"),
               Lit("    endcase"),
               Lit("  end"),
               <<>>,
               Lit("endmodule") >>)

Test7Sources ==
  { Test7Source(c) :
      c \in { Lit("fault"), Lit("fault && !clear"), Lit("(fault && !clear) || start"),
              Lit("fault || (start && clear)") } }

\* a single-register FSM of the shape of TEST_3_SV whose branch B holds one more
\* statement; the member D is never assigned to the state register itself
ShadowSource(statement) ==
  Source(<< Lit("module shadow(input logic clk, input logic rst, input logic x);"),
            Lit("  typedef enum logic [1:0] {A, B, C, D} state_t;"),
            Lit("  state_t state;"),
            Lit("  logic [1:0] prev_state;"),
            Lit("  always_ff @(posedge clk or posedge rst) begin"),
            Lit("    if (rst)"),
            Lit("      state <= A;"),
            Lit("    else begin"),
            Lit("      case (state)"),
            Lit("        A: if (x) state <= B;"),
            Lit("        B: begin"),
            Lit("          ") \o statement,
            Lit("          state <= C;"),
            Lit("        end"),
            Lit("        C: state <= A;"),
            Lit("      endcase"),
            Lit("    end"),
            Lit("  end"),
            Lit("endmodule") >>)

ShadowSources ==
  { ShadowSource(s) :
      s \in { Lit("prev_state <= state;"), Lit("prev_state <= D;"), Lit("state <= D + 1;"),
              Lit("prev_state <= B;") } }

\* a two-process FSM whose case statement has a branch that names no member;
\* d.branch is that branch, d.first puts it before the other branches
DefaultSource(d) ==
  LET labelled == << Lit("      IDLE: if (go) next_state = RUN;"),
                     Lit("      RUN: next_state = IDLE;") >>
      bare == << Lit("      ") \o d.branch >>
  IN  Source(<< Lit("module with_default(input logic clk, input logic rst, input logic go);"),
                Lit("  typedef enum logic [1:0] {IDLE, RUN} state_t;"),
                Lit("  state_t state, next_state;") >>
             \o RegisterBlock(Lit("state"), Lit("next_state"), Lit("IDLE"))
             \o NextStateBlock(Lit("state"), Lit("next_state"),
                               IF d.first THEN bare \o labelled ELSE labelled \o bare)
             \o << Lit("endmodule") >>)

DefaultSources ==
  { DefaultSource(d) :
      d \in [branch : { Lit("default: next_state = state;"),
                        Lit("default: begin next_state = state; end"),
                        Lit("default: if (go) next_state = state;") },
             first : BOOLEAN] }

\* test_fsm_graph_builder.py, TEST_12_SV: a module with an enum variable that is no
\* FSM state and a module with a real FSM, with the signal that guards the
\* first edge of the FSM as a parameter
Test12Source(guard) ==
  Source(<< Lit("module noisy_enum_module ("),
            Lit("    input  logic clk"),
            Lit(");"),
            Lit("  typedef enum logic [1:0] {X0, X1} noisy_t;"),
            Lit("  noisy_t mode;"),
            <<>>,
            Lit("  always_ff @(posedge clk) begin"),
            Lit("    mode <= X0;"),
            Lit("  end"),
            Lit("endmodule"),
            <<>>,
            <<>>,
            Lit("module real_fsm ("),
            Lit("    input  logic clk,"),
            Lit("    input  logic rst,"),
            Lit("    input  logic ") \o guard \o Lit(","),
            Lit("    input  logic done"),
            Lit(");"),
            Lit("  typedef enum logic [1:0] {IDLE, BUSY} state_t;"),
            <<>>,
            Lit("  state_t state, next_state;"),
            <<>> >>
         \o RegisterBlock(Lit("state"), Lit("next_state"), Lit("IDLE"))
         \o << <<>> >>
         \o NextStateBlock(Lit("state"), Lit("next_state"),
              << Lit("      IDLE: if (") \o guard \o Lit(")   next_state = BUSY;"),
                 Lit("      BUSY: if (done) next_state = IDLE;") >>)
         \o << <<>>, Lit("endmodule") >>)

\* test_fsm_graph_builder.py, TEST_5_SV: an FSM next to a variable of an enum type
\* that is no FSM state, with the condition of the first edge as a parameter
Test5Source(cond) ==
  Source(<< Lit("package pkt_defs;"),
            Lit("  typedef enum logic [1:0] {RD, WR} tr_type_t;"),
            Lit("endpackage"),
            <<>>,
            Lit("module fsm_with_enum_and_data ("),
            Lit("    input  logic clk,"),
            Lit("    input  logic rst,"),
            Lit("    input  logic req,"),
            Lit("    input  logic gnt"),
            Lit(");"),
            Lit("  import pkt_defs::*;"),
            <<>>,
            Lit("  typedef enum logic [1:0] {S0, S1} state_t;"),
            <<>>,
            Lit("  state_t    state, next_state;"),
            Lit("  tr_type_t  tr_type;  // just the kind of operation, no FSM"),
            <<>> >>
         \o RegisterBlock(Lit("state"), Lit("next_state"), Lit("S0"))
         \o << <<>> >>
         \o NextStateBlock(Lit("state"), Lit("next_state"),
              << Lit("      S0: if (") \o cond \o Lit(") next_state = S1;"),
                 Lit("      S1: if (gnt) next_state = S0;") >>)
         \o << <<>>, Lit("endmodule") >>)

NonFsmEnumSources ==
  { Test12Source(g) : g \in {Lit("go"), Lit("mode_ok")} }
    \cup { Test5Source(c) : c \in {Lit("req"), Lit("req && tr_type == WR")} }

\* a two-process FSM over the members S0, S1 with the names of its two variables
\* as parameters: q.names is the declaration order, q.reg the index of the
\* register; q.clocked is "write" (the clocked block writes the register),
\* "compare" (it also reads the other variable in a comparison) or "none" (no
\* clocked block: the register is a latch written in a second always_comb)
ClassifierSource(q) ==
  LET reg == q.names[q.reg]
      nxt == q.names[3 - q.reg]
  IN  Source(<< Lit("module classify(input logic clk, input logic rst, input logic go,"),
                Lit("                output logic flag);"),
                Lit("  typedef enum logic {S0, S1} st_t;"),
                Lit("  st_t ") \o q.names[1] \o Lit(", ") \o q.names[2] \o Lit(";") >>
             \o (IF q.clocked = "none"
                 THEN << Lit("  always_comb begin"),
                         Lit("    if (clk) ") \o reg \o Lit(" = ") \o nxt \o Lit(";"),
                         Lit("  end") >>
                 ELSE << Lit("  always_ff @(posedge clk) begin") >>
                      \o (IF q.clocked = "compare"
                          THEN << Lit("    if (") \o nxt \o Lit(" == S1) flag <= 1;") >>
                          ELSE <<>>)
                      \o << Lit("    ") \o reg \o Lit(" <= ") \o nxt \o Lit(";"),
                            Lit("  end") >>)
             \o << Lit("  always_comb begin"),
                   Lit("    ") \o nxt \o Lit(" = ") \o reg \o Lit(";"),
                   Lit("    case (") \o reg \o Lit(")"),
                   Lit("      S0: if (go) ") \o nxt \o Lit(" = S1;"),
                   Lit("      S1: ") \o nxt \o Lit(" = S0;"),
                   Lit("    endcase"),
                   Lit("  end"),
                   Lit("endmodule") >>)

ClassifierSources ==
  { ClassifierSource(q) :
      q \in [names : { <<Lit("state"), Lit("next_state")>>,
                       <<Lit("next_state"), Lit("state")>>,
                       <<Lit("cs"), Lit("ns")>>,
                       <<Lit("ns"), Lit("cs")>>,
                       <<Lit("state_q"), Lit("state_d")>>,
                       <<Lit("cur_state"), Lit("State")>> },
             reg : {1, 2},
             clocked : {"write", "compare", "none"}] }

\* a one-register FSM whose only enum variable, state, is written in the clocked
\* block, with one more statement in a combinational block as parameter
OneRegisterSource(comb_statement) ==
  Source(<< Lit("module one_reg(input logic clk, input logic rst, input logic go,"),
            Lit("               input logic clr, output logic flag);"),
            Lit("  typedef enum logic {S0, S1} state_t;"),
            Lit("  state_t state;"),
            Lit("  always_ff @(posedge clk) begin"),
            Lit("    case (state)"),
            Lit("      S0: if (go) state <= S1;"),
            Lit("      S1: state <= S0;"),
            Lit("    endcase"),
            Lit("  end"),
            Lit("  always_comb begin"),
            Lit("    ") \o comb_statement,
            Lit("  end"),
            Lit("endmodule") >>)

OneRegisterSources ==
  { OneRegisterSource(s) : s \in { Lit("flag = go;"),
                                   Lit("if (clr) state = S0;"),
                                   Lit("flag = (state == S1);") } }

\* a module whose two-process FSM has an enum type declared by a typedef of the
\* module
TypedefModule(name, type_name, members) ==
  << Lit("module ") \o name \o Lit("(input logic clk, input logic rst, input logic go);"),
     Lit("  typedef enum logic [1:0] ") \o EnumBody("plain", members)
       \o Lit(" ") \o type_name \o Lit(";"),
     Lit("  ") \o type_name \o Lit(" state, next_state;") >>
  \o RegisterBlock(Lit("state"), Lit("next_state"), members[1])
  \o NextStateBlock(Lit("state"), Lit("next_state"),
                    RingItems("inline", members, Lit("state"), Lit("next_state")))
  \o << Lit("endmodule") >>

\* two modules, each declaring its own enum type by a typedef; s.types are the
\* names of the two types, s.two the members of the second
TwoScopeSource(s) ==
  Source(TypedefModule(Lit("first"), s.types[1], <<Lit("IDLE"), Lit("RUN")>>)
         \o TypedefModule(Lit("second"), s.types[2], s.two))

TwoScopeSources ==
  { TwoScopeSource(s) :
      s \in [types : { <<Lit("state_t"), Lit("state_t")>>, <<Lit("state_t"), Lit("mode_t")>> },
             two : { <<Lit("IDLE"), Lit("RUN")>>, <<Lit("A"), Lit("B")>>,
                     <<Lit("RUN"), Lit("DONE"), Lit("IDLE")>> }] }

SourceInputs ==
  {Test1Source, Test9Source} \cup FsmSources \cup TwoFsmSources \cup NoEnumVarSources
    \cup AnonSources \cup SingleFsmSources \cup Test10Sources \cup Test7Sources
    \cup ShadowSources \cup DefaultSources \cup NonFsmEnumSources
    \cup ClassifierSources \cup OneRegisterSources
    \cup TwoScopeSources

-----------------------------------------------------------------------------
(* Graphs handed to the generator: the states are S and S1 (one name is a  *)
(* prefix of the other), X is a name that is never a state, an edge is     *)
(* unconditional ("1") or guarded by go.                                   *)

MaxStates == 2
MaxEdges == 2

SeqsUpTo(S, n) == UNION {[1..k -> S] : k \in 0..n}

StateNames == {Lit("S"), Lit("S1")}
EndpointNames == StateNames \cup {Lit("X")}
Conds == {Lit("1"), Lit("go")}
\* edges between states under either guard, and edges with an unknown endpoint
Edges ==
  [from : StateNames, to : StateNames, cond : Conds]
    \cup { e \in [from : EndpointNames, to : EndpointNames, cond : {Lit("1")}] :
             e.from \notin StateNames \/ e.to \notin StateNames }
ModuleNames == {<<>>, Lit("fsm_top")}

GraphInputs ==
  LET scope == Lit("module fsm_example")
      state_var == Lit("state")
      enum_name == Lit("state_t")
  IN  { [scope |-> scope,
         state_var |-> state_var,
         next_state_var |-> nsv,
         enum_name |-> enum_name,
         states |-> ss,
         reset_state |-> rs,
         transitions |-> ts,
         metadata |-> [num_states |-> Len(ss), num_transitions |-> Len(ts)]] :
          ss \in SeqsUpTo(StateNames, MaxStates),
          ts \in SeqsUpTo(Edges, MaxEdges),
          rs \in {<<>>, Lit("S"), Lit("X")},
          nsv \in {<<>>, Lit("next_state")} }

NoOutcome == [kind |-> "none", text |-> <<>>]

-----------------------------------------------------------------------------
(* The runs.  A generator run calls generate_code_from_graph on a caller's *)
(* graph; a round trip parses the returned text and extracts its graphs;   *)
(* an extraction run parses a source text and extracts its graphs.         *)

\* a generator that repairs the graph it is given: duplicate states dropped
graph_after_repair(graph) == [graph EXCEPT !.states = Dedup(@)]

\* the caller's graph after generate_code_from_graph: the generator only reads it
graph_after_generate(graph) == graph

\* generate_code_from_graph returns the text
GenerateReturns ==
  /\ pc = "generate"
  /\ \E module_name \in ModuleNames :
       LET r == generate_code_from_graph(edited_graph, module_name, request_code)
       IN  /\ r.kind = "code"
           /\ outcome' = r
  /\ edited_graph' = graph_after_generate(edited_graph)
  /\ pc' = "returned"
  /\ UNCHANGED <<request_code, tree, graphs, store>>

\* generate_code_from_graph raises ValueError
GenerateRaises ==
  /\ pc = "generate"
  /\ \E module_name \in ModuleNames :
       LET r == generate_code_from_graph(edited_graph, module_name, request_code)
       IN  /\ r.kind = "ValueError"
           /\ outcome' = r
  /\ edited_graph' = graph_after_generate(edited_graph)
  /\ pc' = "raised"
  /\ UNCHANGED <<request_code, tree, graphs, store>>

\* the generated text is parsed again
Reparse ==
  /\ pc = "returned"
  /\ request_code' = outcome.text
  /\ tree' = build_cst_from_text(outcome.text)
  /\ pc' = "extract"
  /\ UNCHANGED <<edited_graph, outcome, graphs, store>>

\* CSTService.build_cst_from_text on the submitted text
Parse ==
  /\ pc = "parse"
  /\ tree' = build_cst_from_text(request_code)
  /\ pc' = "extract"
  /\ UNCHANGED <<edited_graph, outcome, request_code, graphs, store>>

\* build_fsm_graphs_from_cst on the tree
Extract ==
  /\ pc = "extract"
  /\ graphs' = build_fsm_graphs_from_cst(tree)
  /\ pc' = "done"
  /\ UNCHANGED <<edited_graph, outcome, request_code, tree, store>>

\* the original texts a generator is constructed with: the register block of a
\* parsed source, its sensitivity list in four spellings
OriginalText(sensitivity) ==
  Source(<< Lit("  always_ff @(") \o sensitivity \o Lit(") begin"),
            Lit("    state <= next_state;"),
            Lit("  end") >>)

OriginalTexts ==
  { OriginalText(s) : s \in { Lit("posedge clk or posedge rst"),
                              Lit("posedge clk or negedge rst_n"),
                              Lit("posedge clock or posedge reset"),
                              Lit("posedge clk") } }

\* with an original text the generator is given the graphs without edges
HintGraphs == {g \in GraphInputs : g.transitions = <<>>}

InitGen ==
  /\ pc = "generate"
  /\ \/ edited_graph \in GraphInputs /\ request_code = <<>>
     \/ edited_graph \in HintGraphs /\ request_code \in OriginalTexts
  /\ outcome = NoOutcome
  /\ tree = <<>>
  /\ graphs = <<>>
  /\ EmptyStore
NextGen == GenerateReturns \/ GenerateRaises
SpecGen == InitGen /\ [][NextGen]_vars

InitRoundTrip ==
  /\ pc = "generate"
  /\ edited_graph \in {g \in GraphInputs : validate_graph(g) = <<>>}
  /\ outcome = NoOutcome
  /\ request_code = <<>>
  /\ tree = <<>>
  /\ graphs = <<>>
  /\ EmptyStore
NextRoundTrip == GenerateReturns \/ Reparse \/ Extract
SpecRoundTrip == InitRoundTrip /\ [][NextRoundTrip]_vars

Init ==
  /\ pc = "parse"
  /\ edited_graph = <<>>
  /\ outcome = NoOutcome
  /\ request_code \in SourceInputs
  /\ tree = <<>>
  /\ graphs = <<>>
  /\ EmptyStore
Next == Parse \/ Extract
Spec == Init /\ [][Next]_vars

-----------------------------------------------------------------------------
(* The backend (backend/main.py).  Each request handler runs to its end    *)
(* before the next request is served; the globals graphs_storage,          *)
(* current_parse_id and original_code_storage live as long as the process. *)

MaxParses == 2

\* f"{parse_id}_{i}"
GraphId(parse_id, i) == DecStr(parse_id) \o Lit("_") \o DecStr(i)

\* a variant that leaves alone the ids a graph already carries
WithIdsUnlessPresent(graph, parse_id, graph_id) ==
  graph @@ [parse_id |-> parse_id, graph_id |-> graph_id]

\* graph["parse_id"] = parse_id; graph["graph_id"] = graph_id
WithIds(graph, parse_id, graph_id) ==
  [parse_id |-> parse_id, graph_id |-> graph_id] @@ graph

\* the index of the first stored graph with a graph_id, 0 for None
StoredIndex(storage, graph_id) ==
  LET hits == {i \in 1..Len(storage) : storage[i].graph_id = graph_id}
  IN  IF hits = {} THEN 0 ELSE CHOOSE i \in hits : \A j \in hits : i <= j

\* the texts of the parse requests: sources with one, two and no graph
RequestCodes ==
  { Test1Source,
    TwoScopeSource([types |-> <<Lit("state_t"), Lit("mode_t")>>, two |-> <<Lit("A"), Lit("B")>>]),
    Source(<< Lit("module empty(input logic clk);"), Lit("endmodule") >>) }

\* the graphs of the update requests: an edited graph, one whose edge leads to
\* a state that is not in its list, and one that carries ids of its own
RequestGraphs ==
  LET edited(ts) ==
        [scope |-> Lit("module fsm_example"), state_var |-> Lit("state"),
         next_state_var |-> Lit("next_state"), enum_name |-> Lit("state_t"),
         states |-> <<Lit("S"), Lit("S1")>>, reset_state |-> Lit("S"),
         transitions |-> ts, metadata |-> [num_states |-> 2, num_transitions |-> Len(ts)]]
  IN  { edited(<<[from |-> Lit("S"), to |-> Lit("S1"), cond |-> Lit("go")]>>),
        edited(<<[from |-> Lit("S"), to |-> Lit("X"), cond |-> Lit("1")]>>),
        WithIds(edited(<<>>), 9, Lit("9_9")) }

\* the graph ids of the requests
RequestIds == {GraphId(p, i) : p \in 1..MaxParses, i \in 0..1} \cup {Lit("9_9")}

\* tree = cst_service.build_cst_from_text(request.code, ...);
\* graphs = build_fsm_graphs_from_cst(tree), for each request text
ParsedGraphs == [code \in RequestCodes |-> build_fsm_graphs_from_cst(build_cst_from_text(code))]

\* a variant that keeps the graphs of the earlier parses in front of the new ones
stored_after_parse_appending(storage, new_graphs) == storage \o new_graphs

\* graphs_storage = graphs
stored_after_parse(storage, new_graphs) == new_graphs

\* POST /api/parse, the request is served
parse_code ==
  /\ pc = "serve"
  /\ current_parse_id < MaxParses
  /\ \E code \in RequestCodes :
       LET Stored(gs, parse_id) ==
             [i \in 1..Len(gs) |-> WithIds(gs[i], parse_id, GraphId(parse_id, i - 1))]
           Respond(gs, parse_id) ==
             /\ graphs_storage' = stored_after_parse(graphs_storage, gs)
             /\ issued_ids' = issued_ids \cup {gs[i].graph_id : i \in 1..Len(gs)}
             /\ outcome' = [kind |-> "ParseResponse", text |-> <<>>, graphs |-> gs,
                            parse_id |-> parse_id]
           Store(gs, parse_id) ==
             /\ current_parse_id' = parse_id
             /\ original_code_storage' = Append(original_code_storage, code)
             /\ Respond(Stored(gs, parse_id), parse_id)
       IN  Store(ParsedGraphs[code], current_parse_id + 1)
  /\ UNCHANGED <<pc, edited_graph, request_code, tree, graphs>>

\* POST /api/parse, the parser or the graph builder raises: HTTP 500
parse_code_raises ==
  /\ pc = "serve"
  /\ outcome' = [kind |-> "500", text |-> Lit("parse"), graphs |-> <<>>]
  /\ UNCHANGED <<pc, edited_graph, request_code, tree, graphs, store>>

\* GET /api/graphs
get_all_graphs ==
  /\ pc = "serve"
  /\ outcome' = [kind |-> "graphs", text |-> <<>>, graphs |-> graphs_storage,
                 count |-> Len(graphs_storage)]
  /\ UNCHANGED <<pc, edited_graph, request_code, tree, graphs, store>>

\* POST /api/graph/{graph_id}/update
update_graph ==
  /\ pc = "serve"
  /\ \E graph_id \in RequestIds, request_graph \in RequestGraphs :
       LET Put(graph_index, updated_graph) ==
             /\ graphs_storage' = [graphs_storage EXCEPT ![graph_index] = updated_graph]
             /\ outcome' = [kind |-> "updated", text |-> <<>>, graphs |-> <<updated_graph>>]
           Serve(graph_index) ==
             IF graph_index = 0
             THEN /\ outcome' = [kind |-> "404", text |-> <<>>, graphs |-> <<>>]
                  /\ UNCHANGED graphs_storage
             ELSE Put(graph_index,
                      WithIds(request_graph, graphs_storage[graph_index].parse_id, graph_id))
       IN  Serve(StoredIndex(graphs_storage, graph_id))
  /\ UNCHANGED <<pc, edited_graph, request_code, tree, graphs,
                 current_parse_id, original_code_storage, issued_ids>>

\* POST /api/graph/{graph_id}/generate-code
generate_code ==
  /\ pc = "serve"
  /\ \E graph_id \in RequestIds :
       LET Answer(r) ==
             outcome' = [kind |-> IF r.kind = "code" THEN "code" ELSE "500",
                         text |-> r.text, graphs |-> <<>>]
           Generate(graph, module_name) ==
             Answer(generate_code_from_graph(graph, module_name,
                                             original_code_storage[graph.parse_id]))
           Named(graph, parts) ==
             Generate(graph, IF Len(parts) > 1 THEN parts[Len(parts)] ELSE Lit("fsm_example"))
           Serve(graph_index) ==
             IF graph_index = 0
             THEN outcome' = [kind |-> "404", text |-> <<>>, graphs |-> <<>>]
             ELSE Named(graphs_storage[graph_index],
                        SplitWords(graphs_storage[graph_index].scope))
       IN  Serve(StoredIndex(graphs_storage, graph_id))
  /\ UNCHANGED <<pc, edited_graph, request_code, tree, graphs, store>>

InitBackend ==
  /\ pc = "serve"
  /\ edited_graph = <<>>
  /\ outcome = NoOutcome
  /\ request_code = <<>>
  /\ tree = <<>>
  /\ graphs = <<>>
  /\ EmptyStore
NextBackend ==
  parse_code \/ parse_code_raises \/ get_all_graphs \/ update_graph \/ generate_code
SpecBackend == InitBackend /\ [][NextBackend]_vars
-----------------------------------------------------------------------------
(* What a source text declares, read off the syntax tree: the reference    *)
(* the extractor's results are compared with.                              *)

\* the set of the elements of a list
SetOf(s) == {s[i] : i \in 1..Len(s)}

\* the (from, to, guard) triples of a transition list, guards without white space
EdgeSet(ts) == {<<ts[i].from, ts[i].to, Compact(ts[i].cond)>> : i \in 1..Len(ts)}

\* the names an enum type or a declaration lists: the first token of each declarator
DeclaredNames(node) ==
  LET ds == SelectSeq(node.kids, LAMBDA c : kind(c) = Lit("Declarator"))
  IN  [i \in 1..Len(ds) |-> ds[i].kids[1].text]

\* the typedef declarations of enum types
EnumTypedefs(root) ==
  SelectSeq(find_all(root, Lit("TypedefDeclaration")),
            LAMBDA td : Len(td.kids) >= 3 /\ kind(td.kids[2]) = Lit("EnumType"))

\* the type name a data declaration starts with, <<>> if it starts with no name
DeclaredType(d) ==
  IF kind(d.kids[1]) = Lit("NamedType") THEN d.kids[1].kids[1].text ELSE <<>>

\* the data declarations whose type is an enum: an enum type written in place, or
\* the name a typedef gives to an enum type
EnumTypedDeclarations(root) ==
  LET names == {td.kids[3].text : td \in SetOf(EnumTypedefs(root))}
  IN  SelectSeq(find_all(root, Lit("DataDeclaration")),
                LAMBDA d : kind(d.kids[1]) = Lit("EnumType") \/ DeclaredType(d) \in names)

\* the names the resolver keeps as aliases of enum types: typedef names and the
\* variables declared with an enum type written in place
AliasKeys(root) ==
  {td.kids[3].text : td \in SetOf(EnumTypedefs(root))}
    \cup UNION {SetOf(DeclaredNames(d)) :
                  d \in {x \in SetOf(find_all(root, Lit("DataDeclaration"))) :
                           kind(x.kids[1]) = Lit("EnumType")}}

\* no alias occurs in the text of a declaration except as the type of that
\* declaration (declarations that hold their own enum type aside)
AliasOnlyAsType(root) ==
  \A d \in {x \in SetOf(AllNodes(root)) :
              /\ EndsWith(kind(x), Lit("Declaration"))
              /\ kind(x) \notin DOMAIN scope_kinds
              /\ find_all(x, Lit("EnumType")) = <<>>} :
    \A a \in AliasKeys(root) :
      Contains(collect_identifiers_inline(d), a) => DeclaredType(d) = a

\* the variables that some case statement of the tree switches on
SwitchVariables(root) ==
  LET Switch(x) == SelectSeq(x.kids, LAMBDA c : c.tok /\ c.text \notin (CaseQualifiers \cup CaseWords))
  IN  {Switch(x)[2].text :
         x \in {y \in SetOf(AllNodes(root)) :
                  /\ kind(y) = Lit("CaseStatement")
                  /\ Len(Switch(y)) >= 3
                  /\ Switch(y)[1].text = Lit("(")
                  /\ Switch(y)[3].text = Lit(")")}}

\* one module declaring two enum types and, for each, one declaration of
\* variables, one of which a case statement switches on
TwoEnumScope(root) ==
  LET ds == EnumTypedDeclarations(root)
  IN  /\ Len(find_all(root, Lit("ModuleDeclaration"))) = 1
      /\ Len(EnumTypedefs(root)) = 2
      /\ Len(ds) = 2
      /\ DeclaredType(ds[1]) # DeclaredType(ds[2])
      /\ DeclaredType(ds[1]) # <<>> /\ DeclaredType(ds[2]) # <<>>
      /\ \A k \in 1..2 : SetOf(DeclaredNames(ds[k])) \cap SwitchVariables(root) # {}

\* the graph list holds, for each of the two enum types, one graph made of that
\* type's members, variables and case items only
TwoSeparateGraphs(root, gs) ==
  LET ds == EnumTypedDeclarations(root)
      Members(ty) ==
        DeclaredNames((CHOOSE td \in SetOf(EnumTypedefs(root)) : td.kids[3].text = ty).kids[2])
      Expected(ty) ==
        IF Members(ty)[1] = Lit("IDLE")
        THEN {<<Lit("IDLE"), Lit("RUN"), Lit("start")>>, <<Lit("RUN"), Lit("IDLE"), Lit("done")>>}
        ELSE {<<Lit("OK"), Lit("FAIL"), Lit("err")>>, <<Lit("FAIL"), Lit("OK"), Lit("!err")>>}
  IN  /\ Len(gs) = 2
      /\ gs[1].enum_name # gs[2].enum_name
      /\ \A k \in 1..2 :
           \E i \in 1..2 :
             /\ gs[i].enum_name = DeclaredType(ds[k])
             /\ gs[i].states = Members(DeclaredType(ds[k]))
             /\ gs[i].state_var \in SetOf(DeclaredNames(ds[k]))
             /\ gs[i].next_state_var \in SetOf(DeclaredNames(ds[k]))
             /\ EdgeSet(gs[i].transitions) = Expected(DeclaredType(ds[k]))

\* the names that occur more than once in the states of a graph
DuplicatedNames(g) ==
  {g.states[i] : i \in {i \in 1..Len(g.states) :
                          \E j \in 1..Len(g.states) : j # i /\ g.states[j] = g.states[i]}}

\* reset_state is set and is no state
ResetUnknown(g) == g.reset_state # <<>> /\ ~InSeq(g.reset_state, g.states)

\* some transition starts or ends at a name that is no state
HasDanglingEdge(g) ==
  \E i \in 1..Len(g.transitions) :
    ~InSeq(g.transitions[i].from, g.states) \/ ~InSeq(g.transitions[i].to, g.states)

\* every enum type of the tree is resolved to its declared members, and the states
\* of every graph are the declared members of the graph's enum type
MembersResolved(root, gs) ==
  LET items == dfs_collect(root, <<>>, <<>>)
      infos == build_enum_index(root).enum_info_by_id
  IN  /\ \A i \in 1..Len(items) :
           /\ find_enum_members(items[i].enum_node) = DeclaredNames(items[i].enum_node)
           /\ infos[i].enum_members = DeclaredNames(items[i].enum_node)
      /\ \A k \in 1..Len(gs) :
           \E i \in 1..Len(items) :
             /\ infos[i].enum_name = gs[k].enum_name
             /\ gs[k].states = DeclaredNames(items[i].enum_node)

-----------------------------------------------------------------------------
(* Properties.                                                             *)

\* C1: for every graph that passes validation, the graphs extracted from the
\* generated text include one with the same set of states and the same set of
\* (from, to, guard) edges, guards compared without white space (stated for the
\* graphs that have a state).
C1_RoundTrip ==
  (pc = "done" /\ outcome.kind = "code" /\ edited_graph.states # <<>>) =>
    \E i \in 1..Len(graphs) :
      /\ SetOf(graphs[i].states) = SetOf(edited_graph.states)
      /\ EdgeSet(graphs[i].transitions) = EdgeSet(edited_graph.transitions)

\* a round trip that gives the graph back: two states, every state with an edge
C1_RoundTripKept ==
  /\ pc = "done" /\ outcome.kind = "code"
  /\ Len(edited_graph.states) = 2 /\ Len(edited_graph.transitions) = 2
  /\ \E i \in 1..Len(graphs) :
       /\ SetOf(graphs[i].states) = SetOf(edited_graph.states)
       /\ EdgeSet(graphs[i].transitions) = EdgeSet(edited_graph.transitions)

\* C2: a graph with a transition whose from or to is no state makes
\* generate_code_from_graph raise; it never returns a text for such a graph.
C2_DanglingEdgeRejected ==
  (pc # "generate" /\ HasDanglingEdge(edited_graph)) =>
    (pc = "raised" /\ outcome.kind = "ValueError")

\* a rejected graph whose only defect is a dangling edge
C2_DanglingEdgeOnly ==
  /\ pc = "raised"
  /\ HasDanglingEdge(edited_graph)
  /\ DuplicatedNames(edited_graph) = {}
  /\ ~ResetUnknown(edited_graph)

\* C3: a graph with a duplicate state, or with a reset_state that is set and is no
\* state, makes generate_code_from_graph raise an error whose message names the
\* offending value: a duplicated name, or the unknown reset state.
C3_OffendingValueNamed ==
  (pc # "generate" /\ (DuplicatedNames(edited_graph) # {} \/ ResetUnknown(edited_graph))) =>
    /\ pc = "raised"
    /\ outcome.kind = "ValueError"
    /\ \/ \E v \in DuplicatedNames(edited_graph) : Contains(outcome.text, v)
       \/ ResetUnknown(edited_graph) /\ Contains(outcome.text, edited_graph.reset_state)

C5_EndpointsInStates ==
  pc = "done" =>
    \A i \in 1..Len(graphs) :
      /\ \A k \in 1..Len(graphs[i].transitions) :
           /\ InSeq(graphs[i].transitions[k].from, graphs[i].states)
           /\ InSeq(graphs[i].transitions[k].to, graphs[i].states)
      /\ graphs[i].reset_state = <<>> \/ InSeq(graphs[i].reset_state, graphs[i].states)

\* a graph with transitions and a reset state, extracted from case items that also
\* assign a name that is no member
C5_GraphWithHoldBranch ==
  /\ pc = "done"
  /\ Contains(request_code, Lit("else "))
  /\ \E i \in 1..Len(graphs) :
       graphs[i].transitions # <<>> /\ graphs[i].reset_state # <<>>

\* C6: the transitions of an extracted graph hold no (from, to, cond) triple twice.
C6_NoDuplicateEdges ==
  pc = "done" =>
    \A i \in 1..Len(graphs) :
      \A a, b \in 1..Len(graphs[i].transitions) :
        a # b => graphs[i].transitions[a] # graphs[i].transitions[b]

\* a graph extracted from two case constructs on its state variable
C6_TwoCaseConstructs ==
  /\ pc = "done"
  /\ \E i \in 1..Len(graphs) :
       /\ Len(find_case_nodes_on_state(tree, graphs[i].state_var)) >= 2
       /\ graphs[i].transitions # <<>>

\* C7: the resolver returns, for every enum declaration, exactly its member names
\* in declaration order, and the states of every graph are that list.
C7_MembersInOrder == pc = "done" => MembersResolved(tree, graphs)

\* members with value initializers, resolved in order
C7_InitializersResolved ==
  /\ pc = "done"
  /\ Contains(request_code, Lit(" = 2'd"))
  /\ graphs # <<>>
  /\ MembersResolved(tree, graphs)

\* C8: the classic two-process FSM yields exactly one graph: states IDLE, REQ,
\* WAIT, GNT, state variable state, reset state IDLE, and the four edges
\* IDLE-req->REQ, REQ-1->WAIT, WAIT-gnt->GNT, GNT-1->IDLE.
C8_ClassicFsm ==
  (pc = "done" /\ request_code = Test1Source) =>
    /\ Len(graphs) = 1
    /\ graphs[1].states = <<Lit("IDLE"), Lit("REQ"), Lit("WAIT"), Lit("GNT")>>
    /\ graphs[1].state_var = Lit("state")
    /\ graphs[1].reset_state = Lit("IDLE")
    /\ Len(graphs[1].transitions) = 4
    /\ SetOf(graphs[1].transitions) =
         { [from |-> Lit("IDLE"), to |-> Lit("REQ"), cond |-> Lit("req")],
           [from |-> Lit("REQ"), to |-> Lit("WAIT"), cond |-> Lit("1")],
           [from |-> Lit("WAIT"), to |-> Lit("GNT"), cond |-> Lit("gnt")],
           [from |-> Lit("GNT"), to |-> Lit("IDLE"), cond |-> Lit("1")] }

\* the classic FSM has been extracted
C8_ClassicExtracted == pc = "done" /\ request_code = Test1Source

EnumWidth(n) == CHOOSE w \in 1..(n + 1) : 2^w >= n /\ (w = 1 \/ 2^(w - 1) < n)

\* the names between the braces of the first enum declaration of a text
EnumBodyNames(t) ==
  LET lb == Find(t, Lit("{"))
      rb == Find(t, Lit("}"))
      parts == SplitOn(SubSeq(t, lb + 1, rb - 1), ",")
  IN  NonEmpty([i \in 1..Len(parts) |-> Strip(parts[i])])

\* C11: for every graph that passes validation, the enum declaration of the
\* generated text lists the states in their given order and declares the range
\* [width-1:0] with width = max(1, ceil(log2(number of states))), whatever the
\* number of states, none included.
C11_EnumWidth ==
  pc = "returned" =>
    /\ Contains(outcome.text,
                Lit("typedef enum logic [")
                  \o DecStr(EnumWidth(Len(edited_graph.states)) - 1) \o Lit(":0] {"))
    /\ EnumBodyNames(outcome.text) = edited_graph.states

\* the entries of the enum index whose enum type is not the type of a typedef:
\* the enums that have no name of their own
AnonymousEntries(root) ==
  LET typedefs == {x.id : x \in SetOf(find_all_at(root, Lit("TypedefDeclaration"), <<>>))}
  IN  SelectSeq(build_enum_index(root).enum_info_by_id,
                LAMBDA e : SubSeq(e.enum_id, 1, Len(e.enum_id) - 1) \notin typedefs)

Assignments(node) ==
  LET stmts == SelectSeq(AllNodes(node),
                         LAMBDA x : /\ kind(x) = Lit("ExpressionStatement")
                                    /\ Len(x.kids) \in {4, 5}
                                    /\ x.kids[Len(x.kids) - 2].text = Lit("="))
  IN  {[lhs |-> x.kids[1].text, rhs |-> x.kids[Len(x.kids) - 1].text] : x \in SetOf(stmts)}

\* the always_ff blocks of a scope
ClockedBlocks(root, scope) ==
  LET sn == ScopeNode(root, scope)
  IN  IF sn = <<>> THEN {}
      ELSE {x \in SetOf(AllNodes(sn[1])) : kind(x) = Lit("AlwaysFFBlock")}

\* the members a block assigns to a register on its reset branch: the statement
\* under "if (rst)"
ResetBranchMembers(block, register, members) ==
  LET branches == {c.kids[5] : c \in {x \in SetOf(AllNodes(block)) :
                                       /\ kind(x) = Lit("ConditionalStatement")
                                       /\ x.kids[3].text = Lit("rst")}}
  IN  {a.rhs : a \in {x \in UNION {Assignments(s) : s \in branches} :
                        x.lhs = register /\ x.rhs \in SetOf(members)}}

NoEarlierMemberAssigned(block, register, members, R) ==
  \A a \in Assignments(block) :
    EndsWith(a.lhs, register) =>
      \A i \in 1..Len(members) :
        (\A j \in 1..i : members[j] # R) => ~StartsWith(a.rhs, members[i])

CaseConstructsOn(root, scope, var) ==
  LET sn == ScopeNode(root, scope)
      Switch(x) == SelectSeq(x.kids, LAMBDA c : c.tok /\ c.text \notin (CaseQualifiers \cup CaseWords))
  IN  IF sn = <<>> THEN {}
      ELSE {x \in SetOf(AllNodes(sn[1])) :
              /\ kind(x) = Lit("CaseStatement")
              /\ Len(Switch(x)) >= 3
              /\ Switch(x)[1].text = Lit("(")
              /\ Switch(x)[2].text = var
              /\ Switch(x)[3].text = Lit(")")}

\* the members that the branches of a case statement assign to a variable
BranchTargets(case_node, target, members) ==
  {a.rhs : a \in {x \in UNION {Assignments(item) :
                                 item \in {c \in SetOf(case_node.kids) :
                                             kind(c) = Lit("StandardCaseItem")}} :
                    x.lhs = target /\ x.rhs \in SetOf(members)}}

\* the variable the branches write: the next-state variable if there is one
WriteTarget(g) == IF g.next_state_var # <<>> THEN g.next_state_var ELSE g.state_var

\* C14: every case statement on the state variable contributes the edges of its
\* branches, whatever its keyword: each member that a branch of a case, casex or
\* casez statement (unique or priority or plain) assigns to the write target is
\* the end of an edge of the graph.
C14_EveryCaseKeyword ==
  pc = "done" =>
    \A k \in 1..Len(graphs) :
      \A c \in CaseConstructsOn(tree, graphs[k].scope, graphs[k].state_var) :
        \A m \in BranchTargets(c, WriteTarget(graphs[k]), graphs[k].states) :
          \E i \in 1..Len(graphs[k].transitions) : graphs[k].transitions[i].to = m

\* the text of the tokens of a node from kid i to kid j, white space left out
TokensText(node, i, j) == Join([k \in 1..(j - i + 1) |-> node.kids[i + k - 1].text])

\* the case branches "M: if (c) T = X; else T = Y;" of a case statement, as records
\* [from, cond, then_to, else_to]: one conditional statement whose two branches
\* are single assignments of members to the target
IfElseBranches(case_node, target, members) ==
  LET Single(s) == {a \in Assignments(s) :
                      /\ kind(s) = Lit("ExpressionStatement")
                      /\ a.lhs = target
                      /\ a.rhs \in SetOf(members)}
      items == {c \in SetOf(case_node.kids) :
                  /\ kind(c) = Lit("StandardCaseItem")
                  /\ Len(c.kids) = 3
                  /\ c.kids[1].text \in SetOf(members)
                  /\ kind(c.kids[3]) = Lit("ConditionalStatement")
                  /\ kind(c.kids[3].kids[Len(c.kids[3].kids)]) = Lit("ElseClause")}
  IN  UNION { LET s == c.kids[3]
                  n == Len(s.kids)
              IN  { [from |-> c.kids[1].text,
                     cond |-> TokensText(s, 3, n - 3),
                     then_to |-> x.rhs,
                     else_to |-> y.rhs] :
                      x \in Single(s.kids[n - 1]), y \in Single(s.kids[n].kids[2]) }
              : c \in items }

\* C15: a case branch "M: if (c) T = X; else T = Y;" yields the edges (M, X, c)
\* and (M, Y, "1"): the assignment under the plain else is unconditional.
C15_PlainElseUnconditional ==
  pc = "done" =>
    \A k \in 1..Len(graphs) :
      \A c \in CaseConstructsOn(tree, graphs[k].scope, graphs[k].state_var) :
        \A b \in IfElseBranches(c, WriteTarget(graphs[k]), graphs[k].states) :
          /\ <<b.from, b.then_to, b.cond>> \in EdgeSet(graphs[k].transitions)
          /\ <<b.from, b.else_to, Lit("1")>> \in EdgeSet(graphs[k].transitions)

\* the condition of a conditional statement: the text between "if (" and the ")"
\* before its first branch, white space left out
ConditionText(s) ==
  LET first == CHOOSE f \in 1..Len(s.kids) :
                 ~s.kids[f].tok /\ \A e \in 1..(f - 1) : s.kids[e].tok
  IN  TokensText(s, 3, first - 2)

\* the pairs [to, guard] a case branch stands for: every assignment of a member to
\* the target, with the condition of the last "if" that starts before it in the
\* branch, or "1" if there is none
GuardedAssignments(item, target, members) ==
  LET nodes == AllNodes(item)
      IsIf(q) == kind(nodes[q]) = Lit("ConditionalStatement")
      Guard(p) ==
        IF \E q \in 1..(p - 1) : IsIf(q)
        THEN ConditionText(nodes[CHOOSE q \in 1..(p - 1) :
                                   IsIf(q) /\ \A r \in (q + 1)..(p - 1) : ~IsIf(r)])
        ELSE Lit("1")
  IN  UNION { {[to |-> a.rhs, guard |-> Guard(p)] :
                 a \in {x \in Assignments(nodes[p]) :
                          x.lhs = target /\ x.rhs \in SetOf(members)}} :
              p \in {z \in 1..Len(nodes) : kind(nodes[z]) = Lit("ExpressionStatement")} }

\* the case statements on a variable whose keyword is case itself, plain or
\* qualified
PlainCaseConstructsOn(root, scope, var) ==
  {c \in CaseConstructsOn(root, scope, var) :
     \E i \in 1..Len(c.kids) : c.kids[i].tok /\ c.kids[i].text = Lit("case")}

\* C16: the guard of an edge is the complete condition of the nearest "if (COND)"
\* that precedes the assignment within the branch, parenthesised parts of COND
\* included, and "1" when no "if" precedes it; after "else if (b)" it is b alone.
C16_CompleteCondition ==
  pc = "done" =>
    \A k \in 1..Len(graphs) :
      \A c \in PlainCaseConstructsOn(tree, graphs[k].scope, graphs[k].state_var) :
        \A item \in {x \in SetOf(c.kids) : kind(x) = Lit("StandardCaseItem")} :
          \A e \in GuardedAssignments(item, WriteTarget(graphs[k]), graphs[k].states) :
            \E i \in 1..Len(graphs[k].transitions) :
              /\ graphs[k].transitions[i].to = e.to
              /\ Compact(graphs[k].transitions[i].cond) = e.guard

\* C17: an edge comes only from an assignment whose left side is exactly the
\* write target and whose right side is exactly one member: every edge of a graph
\* ends in a member that some statement "target = member;" of a case statement
\* on the state variable assigns, so that an assignment to another variable
\* whose name ends with the target's, or of a larger expression, adds no edge.
C17_OnlyExactAssignments ==
  pc = "done" =>
    \A k \in 1..Len(graphs) :
      \A i \in 1..Len(graphs[k].transitions) :
        \E c \in PlainCaseConstructsOn(tree, graphs[k].scope, graphs[k].state_var) :
          \E a \in Assignments(c) :
            /\ a.lhs = WriteTarget(graphs[k])
            /\ a.rhs = graphs[k].transitions[i].to

\* C18: the from_state of a branch is the member that stands as a whole token
\* first in the branch: the edges of a branch labelled with member M start at M,
\* also when the name of another member is the beginning or a part of M's name,
\* in either declaration order.
C18_FromStateIsLabel ==
  pc = "done" =>
    \A k \in 1..Len(graphs) :
      \A c \in PlainCaseConstructsOn(tree, graphs[k].scope, graphs[k].state_var) :
        \A item \in {x \in SetOf(c.kids) :
                       /\ kind(x) = Lit("StandardCaseItem")
                       /\ x.kids[1].text \in SetOf(graphs[k].states)} :
          \A a \in Assignments(item) :
            (a.lhs = WriteTarget(graphs[k]) /\ a.rhs \in SetOf(graphs[k].states)) =>
              \E i \in 1..Len(graphs[k].transitions) :
                /\ graphs[k].transitions[i].from = item.kids[1].text
                /\ graphs[k].transitions[i].to = a.rhs

\* the member names of all enum types of a tree
AllMembers(root) ==
  UNION {SetOf(DeclaredNames(e)) : e \in SetOf(find_all(root, Lit("EnumType")))}

\* a case branch none of whose tokens is a member name
Memberless(item, members) ==
  /\ Contains(kind(item), Lit("CaseItem"))
  /\ \A x \in SetOf(AllNodes(item)) : x.tok => x.text \notin members

\* the tree without its branches that name no member
RECURSIVE WithoutMemberless(_, _)
WithoutMemberless(n, members) ==
  LET kept == SelectSeq(n.kids, LAMBDA c : ~Memberless(c, members))
  IN  [n EXCEPT !.kids = [i \in 1..Len(kept) |-> WithoutMemberless(kept[i], members)]]

\* C19: a case branch in which no member name occurs adds no edge and stops
\* nothing: the graphs are those of the same source without such branches, the
\* edges of the other branches included.
C19_MemberlessBranchSkipped ==
  pc = "done" =>
    graphs = build_fsm_graphs_from_cst(WithoutMemberless(tree, AllMembers(tree)))

\* a graph with edges has been extracted from a case statement one of whose
\* branches names no member
C19_DefaultBranchSeen ==
  /\ pc = "done"
  /\ \E k \in 1..Len(graphs) :
       /\ graphs[k].transitions # <<>>
       /\ \E c \in PlainCaseConstructsOn(tree, graphs[k].scope, graphs[k].state_var) :
            \E i \in 1..Len(c.kids) : Memberless(c.kids[i], SetOf(graphs[k].states))

\* the variables declared with the name of a typedef'd enum type, as records
\* [var, type]
EnumVariables(root) ==
  LET ds == SelectSeq(EnumTypedDeclarations(root), LAMBDA d : DeclaredType(d) # <<>>)
  IN  UNION {{[var |-> v, type |-> DeclaredType(d)] : v \in SetOf(DeclaredNames(d))} :
               d \in SetOf(ds)}

\* an enum variable that is no FSM state: 'state' is in neither its name nor the
\* name of its type, and no case statement switches on it
NonStateVariables(root) ==
  {v \in EnumVariables(root) :
     /\ ~Contains(Lower(v.var), Lit("state"))
     /\ ~Contains(Lower(v.type), Lit("state"))
     /\ v.var \notin SwitchVariables(root)}

\* C20: an enum variable that is no FSM state yields no graph, even when a
\* clocked block assigns it a member; a file with such a variable and one real
\* FSM yields the graph of the FSM only.
C20_NonStateEnumNoGraph ==
  pc = "done" =>
    \A v \in NonStateVariables(tree) :
      \A k \in 1..Len(graphs) :
        /\ graphs[k].state_var # v.var
        /\ graphs[k].next_state_var # v.var
        /\ graphs[k].enum_name # v.type


\* the names a block writes: the first token of each statement "name = ...;" or
\* "name <= ...;" among its nodes
WrittenNames(block) ==
  {x.kids[1].text :
     x \in {y \in SetOf(AllNodes(block)) :
              /\ kind(y) = Lit("ExpressionStatement")
              /\ Len(y.kids) >= 4
              /\ \/ y.kids[2].text = Lit("=") /\ y.kids[3].text # Lit("=")
                 \/ y.kids[2].text = Lit("<") /\ y.kids[3].text = Lit("=")}}

\* the score of a name as the name of a state register
PrimaryScore(name) ==
  LET n == Lower(name)
  IN  (IF n = Lit("state") THEN 3 ELSE 0)
        + (IF Contains(n, Lit("state")) THEN 2 ELSE 0)
        - (IF \/ Contains(n, Lit("next")) \/ Contains(n, Lit("nxt"))
              \/ EndsWith(n, Lit("_d")) \/ EndsWith(n, Lit("_ns"))
           THEN 2 ELSE 0)

\* the primary of a group of variables, given the names written in clocked
\* blocks: among the written ones if there is one, else among all, the first in
\* group order of those with the highest score
ExpectedPrimary(group, written) ==
  LET cands == IF SetOf(group) \cap written # {}
               THEN SelectSeq(group, LAMBDA v : v \in written)
               ELSE group
      best == CHOOSE i \in 1..Len(cands) :
                /\ \A j \in 1..Len(cands) : PrimaryScore(cands[j]) <= PrimaryScore(cands[i])
                /\ \A j \in 1..(i - 1) : PrimaryScore(cands[j]) < PrimaryScore(cands[i])
  IN  cands[best]

\* the declarations of one scope that declare the variables of a graph: their
\* type is the graph's enum type and the graph's register is among their names
GroupDeclarations(root, g) ==
  LET sn == ScopeNode(root, g.scope)
  IN  IF sn = <<>> THEN {}
      ELSE {d \in SetOf(find_all(sn[1], Lit("DataDeclaration"))) :
              /\ DeclaredType(d) = g.enum_name
              /\ g.state_var \in SetOf(DeclaredNames(d))}

\* C21: the register of a graph is, among the variables of its group that a
\* clocked block writes (among the whole group when none is written there), the
\* one with the highest name score, the first in declaration order among equals.
C21_PrimaryByScore ==
  pc = "done" =>
    \A k \in 1..Len(graphs) :
      \A d \in GroupDeclarations(tree, graphs[k]) :
        graphs[k].state_var
          = ExpectedPrimary(DeclaredNames(d),
                            UNION {WrittenNames(b) : b \in ClockedBlocks(tree, graphs[k].scope)})


\* C28: the next-state variable of a graph is absent or differs from the
\* graph's register, also when the only variable of the group that a
\* combinational block writes is the register itself.
C28_NextDiffersFromRegister ==
  pc = "done" =>
    \A k \in 1..Len(graphs) :
      \/ graphs[k].next_state_var = <<>>
      \/ graphs[k].next_state_var # graphs[k].state_var


\* the typedef declarations of enum types inside one scope
ScopeTypedefs(root, scope) ==
  LET sn == ScopeNode(root, scope)
  IN  IF sn = <<>> THEN {} ELSE SetOf(EnumTypedefs(sn[1]))

\* the labels of the scopes of a tree
ScopeLabels(root) ==
  {ScopeNodeList(root)[i].label : i \in 1..Len(ScopeNodeList(root))}

\* the typedef'd enum type of a graph is declared in the graph's scope, and
\* another scope declares an enum type of the same name
SharedTypeName(root, g) ==
  /\ \E td \in ScopeTypedefs(root, g.scope) : td.kids[3].text = g.enum_name
  /\ \E s \in ScopeLabels(root) \ {g.scope} :
       \E td \in ScopeTypedefs(root, s) : td.kids[3].text = g.enum_name

\* C26: when two scopes declare an enum type each by a typedef of the same name,
\* the states of a graph of either scope are the members of the typedef of the
\* graph's own scope.
C26_OwnTypedefMembers ==
  pc = "done" =>
    \A k \in 1..Len(graphs) :
      SharedTypeName(tree, graphs[k]) =>
        \A td \in ScopeTypedefs(tree, graphs[k].scope) :
          td.kids[3].text = graphs[k].enum_name
            => graphs[k].states = DeclaredNames(td.kids[2])


\* the graphs of a list that belong to one scope, in list order
GraphsIn(gs, scope) == SelectSeq(gs, LAMBDA g : g.scope = scope)

\* the tree of a file that holds one module of a tree and nothing else
Alone(m) == [tok |-> FALSE, kind |-> Lit("CompilationUnit"), text |-> <<>>,
             trivia |-> <<>>, kids |-> <<m>>]

\* the modules of a tree
Modules(root) ==
  {m \in SetOf(root.kids) : ~m.tok /\ kind(m) = Lit("ModuleDeclaration")}

\* a graph list without the names of the enum types (the names given to enum
\* types written in place number the types of the whole file)
Unnamed(gs) == [k \in 1..Len(gs) |-> [gs[k] EXCEPT !.enum_name = <<>>]]

\* C27: in a file of modules only, the graphs reported for a module are, up to
\* the name of the enum type, the graphs reported for that module when it is
\* the only content of the file: nothing that another scope holds changes them,
\* and whether a variable of the module is an FSM candidate does not depend on
\* another scope's case statements.
C27_ScopeIsolation ==
  (pc = "done" /\ find_all(tree, Lit("PackageDeclaration")) = <<>>) =>
    \A m \in Modules(tree) :
      Unnamed(GraphsIn(graphs, ScopeLabel(m)))
        = Unnamed(build_fsm_graphs_from_cst(Alone(m)))


\* the lines of a text, each without the white space around it
StrippedLines(t) ==
  LET parts == SplitOn(t, "\n")
  IN  [i \in 1..Len(parts) |-> Strip(parts[i])]

\* C22: in the generated text every 'else if' line continues a chain: the
\* statement before it is the assignment of an 'if' or 'else if' of the same
\* branch, whatever the order of guarded and unguarded edges in the edge list.
C22_ElseIfContinuesChain ==
  pc = "returned" =>
    LET ls == StrippedLines(outcome.text)
    IN  \A i \in 1..Len(ls) :
          StartsWith(ls[i], Lit("else if")) =>
            /\ i >= 3
            /\ \/ StartsWith(ls[i - 2], Lit("if ("))
               \/ StartsWith(ls[i - 2], Lit("else if ("))


\* the lines of the case block of a generated text: from the line after
\* 'unique case (...)' to the line before 'endcase'
CaseBlockLines(t) ==
  LET ls == StrippedLines(t)
      first == CHOOSE i \in 1..Len(ls) : StartsWith(ls[i], Lit("unique case ("))
      last == CHOOSE i \in 1..Len(ls) : ls[i] = Lit("endcase")
  IN  SubSeq(ls, first + 1, last - 1)

\* the branches of a case block: each runs from a line 'label: begin' to the
\* next line 'end', and is given as [label, body]
RECURSIVE Branches(_)
Branches(ls) ==
  IF ls = <<>> THEN <<>>
  ELSE LET e == CHOOSE i \in 1..Len(ls) : ls[i] = Lit("end") /\ \A j \in 1..(i - 1) : ls[j] # Lit("end")
       IN  << [label |-> SubSeq(ls[1], 1, Len(ls[1]) - Len(Lit(": begin"))),
               body |-> SubSeq(ls, 2, e - 1)] >>
             \o Branches(SubSeq(ls, e + 1, Len(ls)))

\* the right-hand sides of the assignments to a variable among some lines
AssignedIn(body, var) ==
  {SubSeq(body[i], Len(var) + 4, Len(body[i]) - 1) :
     i \in {j \in 1..Len(body) : StartsWith(body[j], var \o Lit(" = "))}}

\* C23: the case block of the generated text has one branch per state, in the
\* order of the states, then one default branch that assigns the register to
\* the written variable; the branch of a state assigns the targets of that
\* state's edges and nothing else, and the state itself when it has no edge.
C23_OneBranchPerState ==
  pc = "returned" =>
    LET g == edited_graph
        target == IF g.next_state_var # <<>> THEN g.next_state_var ELSE g.state_var
        bs == Branches(CaseBlockLines(outcome.text))
        n == Len(g.states)
        OutOf(s) == {g.transitions[i].to :
                       i \in {j \in 1..Len(g.transitions) : g.transitions[j].from = s}}
    IN  /\ Len(bs) = n + 1
        /\ \A k \in 1..n :
             /\ bs[k].label = g.states[k]
             /\ AssignedIn(bs[k].body, target)
                  = (IF OutOf(g.states[k]) = {} THEN {g.states[k]} ELSE OutOf(g.states[k]))
        /\ bs[n + 1].label = Lit("default")
        /\ bs[n + 1].body = << target \o Lit(" = ") \o g.state_var \o Lit(";") >>

\* a graph of two states, one with edges to both states and one without an edge,
\* has been generated
C23_StateWithoutEdge ==
  /\ pc = "returned"
  /\ Len(edited_graph.states) = 2
  /\ {edited_graph.transitions[i].from : i \in 1..Len(edited_graph.transitions)}
       = {edited_graph.states[1]}
  /\ {edited_graph.transitions[i].to : i \in 1..Len(edited_graph.transitions)}
       = SetOf(edited_graph.states)


\* the signals of the first always_ff sensitivity list of a text, in order: the
\* words that follow 'posedge' or 'negedge' between '@(' and ')'
SensitivitySignals(t) ==
  LET at == Find(t, Lit("always_ff @("))
      from == at + Len(Lit("always_ff @("))
      ws == SplitWords(SubSeq(t, from, SkipUntil(t, from, {")"}) - 1))
      after == {i \in 2..Len(ws) : ws[i - 1] \in {Lit("posedge"), Lit("negedge")}}
  IN  IF at = 0 THEN <<>>
      ELSE [k \in 1..Cardinality(after) |->
              ws[CHOOSE i \in after : Cardinality({j \in after : j <= i}) = k]]

\* the ports a module text declares: the last word of each line that starts
\* with 'input' or 'output', without the comma
DeclaredPorts(t) ==
  LET ls == StrippedLines(t)
      port(l) == LET w == SplitWords(l)[Len(SplitWords(l))]
                 IN  IF EndsWith(w, Lit(",")) THEN SubSeq(w, 1, Len(w) - 1) ELSE w
  IN  {port(ls[i]) : i \in {j \in 1..Len(ls) : \/ StartsWith(ls[j], Lit("input"))
                                               \/ StartsWith(ls[j], Lit("output"))}}

\* C24: generated with an original text, the clocked block names the clock of
\* the original's always_ff and, when the original has a reset edge, its reset;
\* when the original has a clock edge only, the reset named is not the clock;
\* and every signal of the generated sensitivity list is a port of the
\* generated module.
C24_ClockAndResetOfOriginal ==
  (pc = "returned" /\ request_code # <<>>) =>
    LET orig == SensitivitySignals(request_code)
        gen == SensitivitySignals(outcome.text)
    IN  /\ Len(gen) = 2
        /\ gen[1] = orig[1]
        /\ Len(orig) >= 2 => gen[2] = orig[2]
        /\ Len(orig) = 1 => gen[2] # gen[1]
        /\ SetOf(gen) \subseteq DeclaredPorts(outcome.text)


\* a response to GET /api/graphs holds the graphs of the latest parse: as many
\* as that parse found, each with the latest parse_id and with the graph_id of
\* its place, and each either as the parse found it or as an update request
\* has put it
LatestParseReturned ==
  LET gs == outcome.graphs
      latest == IF current_parse_id = 0 THEN <<>>
                ELSE ParsedGraphs[original_code_storage[current_parse_id]]
      ids(i) == [parse_id |-> current_parse_id,
                 graph_id |-> DecStr(current_parse_id) \o <<"_">> \o DecStr(i - 1)]
  IN  /\ outcome.count = Len(latest)
      /\ Len(gs) = Len(latest)
      /\ Len(original_code_storage) = current_parse_id
      /\ \A i \in 1..Len(gs) :
           \/ gs[i] = ids(i) @@ latest[i]
           \/ \E g \in RequestGraphs : gs[i] = ids(i) @@ g

\* C25: every response to GET /api/graphs holds exactly the graphs of the most
\* recent served parse, with the updates made since, and none of an earlier
\* parse; a parse request that fails leaves the stored graphs and the parse
\* counter as they were.
C25_LatestParseOnly ==
  [][/\ outcome'.kind = "graphs" => LatestParseReturned'
     /\ (outcome'.kind = "500" /\ outcome'.text = Lit("parse"))
          => UNCHANGED <<graphs_storage, current_parse_id>>]_vars

\* the graphs are asked for after two parses and an update of a graph of the second
C25_SecondParseReturned ==
  /\ outcome.kind = "graphs"
  /\ current_parse_id = 2
  /\ Len(outcome.graphs) = 2
  /\ outcome.graphs[1].states = <<Lit("S"), Lit("S1")>>
  /\ outcome.graphs[2].states = <<Lit("A"), Lit("B")>>


\* C29: the parse id of each served parse is greater than all before it, and
\* its graph ids have never been handed out before; the stored graphs have
\* pairwise different graph ids and all carry the id of the latest parse; a
\* request other than a served parse changes no stored graph_id or parse_id.
C29_IdsNeverReused ==
  [][/\ current_parse_id' >= current_parse_id
     /\ outcome'.kind = "ParseResponse" =>
          /\ current_parse_id' > current_parse_id
          /\ outcome'.parse_id = current_parse_id'
          /\ \A i \in 1..Len(graphs_storage') : graphs_storage'[i].graph_id \notin issued_ids
     /\ outcome'.kind # "ParseResponse" =>
          /\ current_parse_id' = current_parse_id
          /\ Len(graphs_storage') = Len(graphs_storage)
          /\ \A i \in 1..Len(graphs_storage) :
               /\ graphs_storage'[i].graph_id = graphs_storage[i].graph_id
               /\ graphs_storage'[i].parse_id = graphs_storage[i].parse_id
     /\ \A i \in 1..Len(graphs_storage') :
          /\ graphs_storage'[i].parse_id = current_parse_id'
          /\ \A j \in 1..Len(graphs_storage') :
               graphs_storage'[i].graph_id = graphs_storage'[j].graph_id => i = j]_vars

\* after the second parse, an update has stored a request graph that came with
\* ids of its own
C29_UpdateWithOwnIds ==
  /\ current_parse_id = 2
  /\ outcome.kind = "updated"
  /\ \E i \in 1..Len(graphs_storage) :
       /\ graphs_storage[i].scope = Lit("module fsm_example")
       /\ graphs_storage[i].transitions = <<>>
  /\ Cardinality(issued_ids) >= 3


\* C30: every stored graph passes the generator's validation, so that a
\* generate-code request for a stored graph_id is never answered with an error
\* of the validation.
C30_StoredGraphsValid ==
  /\ \A i \in 1..Len(graphs_storage) : validate_graph(graphs_storage[i]) = <<>>
  /\ outcome.kind = "500" => outcome.text = Lit("parse")

==============================================================================
